---- MODULE Spec2Model ----
(***************************************************************************)
(* A model of the aggregation logic of the LSGD election explorer          *)
(* (pkthufail/LSGD_Analysis): the leader resolver, the strength           *)
(* classifier, the opponent breakdown and its join keys, the rank tables,  *)
(* the seat crosstab, the loader's normalisation, the leaders table of the *)
(* District page, the summary rows of the Assembly page and the headline   *)
(* of the Ward page.                                                       *)
(*                                                                         *)
(* A pandas DataFrame is a sequence of rows (records); a python dict is a  *)
(* sequence of <<key, value>> pairs in insertion order; a float quotient   *)
(* is a pair <<numerator, denominator>>, or one of the strings "NaN",      *)
(* "inf", "-inf" where IEEE division gives those.                          *)
(***************************************************************************)
EXTENDS Integers, Sequences, FiniteSets, TLC

VARIABLES
    d,          \* the dict handed to a leader function (pairs <<front, value>>)
    leader,     \* the last leader computed: [fn, prefer_low, res]
    lead,       \* a value of the Lead column
    strength,   \* the bucket _lead_to_strength returned for it
    df,         \* the DataFrame: a sequence of rows
    table       \* the last table a view computed from df

vars == <<d, leader, lead, strength, df, table>>

(***************************************************************************)
(* Bounds of the model.                                                    *)
(***************************************************************************)
MaxVal == 4          \* largest value stored in a leader dict
MaxLead == 501       \* largest absolute margin classified
MaxOppRows == 4      \* most rows in the scope of an opponent breakdown
MaxRankRows == 3     \* most rows in the scope of a rank table
MaxSeatRows == 3     \* most rows loaded before a seat crosstab
MaxCsvRows == 3      \* most rows of a CSV file
MaxLeadRows == 3     \* most rows of the district behind the leaders table
MaxChartRows == 3    \* most rows in the scope of the strength chart
MaxVotes == 2        \* largest Votes cell of a CSV file
MaxKeyRows == 2      \* most rows of a scope of any columns
MaxViewRows == 2     \* most rows of a scope shared by two views
MaxAssemblyRows == 3 \* most rows of the selected assembly
MaxWardRows == 3     \* most rows of the selected ward

(***************************************************************************)
(* Generic helpers over sequences.                                         *)
(***************************************************************************)
Range(s) == { s[i] : i \in 1..Len(s) }

RECURSIVE SeqSum(_)
SeqSum(s) == IF s = <<>> THEN 0 ELSE Head(s) + SeqSum(Tail(s))

RECURSIVE SumOver(_, _)
SumOver(f, S) ==
    IF S = {} THEN 0
    ELSE LET x == CHOOSE y \in S : TRUE IN f[x] + SumOver(f, S \ {x})

SetMax(S) == CHOOSE x \in S : \A y \in S : y <= x
SetMin(S) == CHOOSE x \in S : \A y \in S : x <= y

Unset == [fn |-> "unset"]

\* a numeric cell: a number, or missing (NaN, pd.NA)
Num(n) == [na |-> FALSE, v |-> n]
NA == [na |-> TRUE, v |-> 0]

\* pd.isna(cell)
IsNa(cell) == cell.na

(***************************************************************************)
(* Category axes (the same lists on every page).                           *)
(***************************************************************************)
FRONT_ORDER == <<"UDF", "LDF", "NDA", "OTH">>
LBTYPE_ORDER == <<"Grama", "Municipality", "Corporation", "Block", "District">>

(***************************************************************************)
(* Leader resolver.                                                        *)
(***************************************************************************)
DictKeys(dict) == { dict[i][1] : i \in 1..Len(dict) }
DictValues(dict) == { dict[i][2] : i \in 1..Len(dict) }

\* dict.get(key, default)
DictGet(dict, key, default) ==
    IF key \in DictKeys(dict)
    THEN (CHOOSE p \in Range(dict) : p[1] = key)[2]
    ELSE default

\* [fr for fr, v in dict.items() if v == x], in insertion order
KeysWithValue(dict, x) ==
    LET Hit(p) == p[2] = x
        hits == SelectSeq(dict, Hit)
    IN [i \in 1..Len(hits) |-> hits[i][1]]

\* _winner_from_dict without its "maxv <= 0" test
WinnerFromDictNoZeroTest(dict, prefer_low) ==
    IF dict = <<>> THEN "NONE"
    ELSE LET x == IF prefer_low THEN SetMin(DictValues(dict))
                  ELSE SetMax(DictValues(dict))
             winners == KeysWithValue(dict, x)
         IN IF Len(winners) = 1 THEN winners[1] ELSE "TIE"

\* _winner_from_dict taking the maximum also when prefer_low is set
WinnerFromDictAlwaysMax(dict, prefer_low) ==
    IF dict = <<>> THEN "NONE"
    ELSE LET maxv == SetMax(DictValues(dict))
             winners == KeysWithValue(dict, maxv)
         IN IF ~prefer_low /\ maxv <= 0 THEN "NONE"
            ELSE IF Len(winners) = 1 THEN winners[1] ELSE "TIE"

\* _winner_from_dict returning the first of the tied categories
WinnerFromDictFirstOfTied(dict, prefer_low) ==
    IF dict = <<>> THEN "NONE"
    ELSE LET x == IF prefer_low THEN SetMin(DictValues(dict))
                  ELSE SetMax(DictValues(dict))
             winners == KeysWithValue(dict, x)
         IN IF ~prefer_low /\ x <= 0 THEN "NONE" ELSE winners[1]

WinnerFromDict(dict, prefer_low) ==
    IF dict = <<>> THEN "NONE"
    ELSE IF prefer_low
    THEN LET minv == SetMin(DictValues(dict))
             winners == KeysWithValue(dict, minv)
         IN IF Len(winners) = 1 THEN winners[1] ELSE "TIE"
    ELSE LET maxv == SetMax(DictValues(dict))
             winners == KeysWithValue(dict, maxv)
         IN IF maxv <= 0 THEN "NONE"
            ELSE IF Len(winners) = 1 THEN winners[1] ELSE "TIE"

\* {fr: row.get(fr, 0) for fr in FRONT_ORDER}
FrontVals(row) ==
    [i \in 1..Len(FRONT_ORDER) |-> <<FRONT_ORDER[i], DictGet(row, FRONT_ORDER[i], 0)>>]

\* _lb_leader of the Assembly page
LbLeader(row) ==
    LET vals == FrontVals(row)
        maxv == IF vals # <<>> THEN SetMax(DictValues(vals)) ELSE 0
        winners == KeysWithValue(vals, maxv)
    IN IF maxv <= 0 THEN "NONE"
       ELSE IF Len(winners) = 1 THEN winners[1] ELSE "TIE"

\* _leader_row of the District page naming the first of the tied fronts
LeaderRowDistrictFirstOfTied(row) ==
    LET counts == FrontVals(row)
        maxv == IF counts # <<>> THEN SetMax(DictValues(counts)) ELSE 0
        leaders == IF maxv > 0 THEN KeysWithValue(counts, maxv) ELSE <<>>
    IN IF leaders # <<>> THEN leaders[1] ELSE "NONE"

\* _leader_row of the District page
LeaderRowDistrict(row) ==
    LET counts == FrontVals(row)
        maxv == IF counts # <<>> THEN SetMax(DictValues(counts)) ELSE 0
        leaders == IF maxv > 0 THEN KeysWithValue(counts, maxv) ELSE <<>>
    IN IF Len(leaders) = 1 THEN leaders[1]
       ELSE IF maxv > 0 THEN "TIE" ELSE "NONE"

\* _leader_row of the Assembly page
LeaderRowAssembly(row) ==
    LET vals == FrontVals(row)
        maxv == IF vals # <<>> THEN SetMax(DictValues(vals)) ELSE 0
        leaders == IF maxv > 0 THEN KeysWithValue(vals, maxv) ELSE <<>>
    IN IF Len(leaders) = 1 THEN leaders[1]
       ELSE IF maxv > 0 THEN "TIE" ELSE "NONE"

InitLeader ==
    /\ d = <<>>
    /\ leader = Unset
    /\ lead = NA
    /\ strength = "unset"
    /\ df = <<>>
    /\ table = Unset

\* one more entry of the dict, in any order of the fronts
DictInsert ==
    /\ leader = Unset
    /\ Len(d) < Len(FRONT_ORDER)
    /\ \E fr \in Range(FRONT_ORDER) \ DictKeys(d), v \in 0..MaxVal :
          d' = Append(d, <<fr, v>>)
    /\ UNCHANGED <<leader, lead, strength, df, table>>

CallWinnerFromDict ==
    /\ leader = Unset
    /\ \E prefer_low \in BOOLEAN :
          leader' = [fn |-> "_winner_from_dict", prefer_low |-> prefer_low,
                     res |-> WinnerFromDict(d, prefer_low)]
    /\ UNCHANGED <<d, lead, strength, df, table>>

CallLbLeader ==
    /\ leader = Unset
    /\ leader' = [fn |-> "_lb_leader", prefer_low |-> FALSE, res |-> LbLeader(d)]
    /\ UNCHANGED <<d, lead, strength, df, table>>

CallLeaderRowDistrict ==
    /\ leader = Unset
    /\ leader' = [fn |-> "_leader_row@District", prefer_low |-> FALSE,
                  res |-> LeaderRowDistrict(d)]
    /\ UNCHANGED <<d, lead, strength, df, table>>

CallLeaderRowAssembly ==
    /\ leader = Unset
    /\ leader' = [fn |-> "_leader_row@Assembly", prefer_low |-> FALSE,
                  res |-> LeaderRowAssembly(d)]
    /\ UNCHANGED <<d, lead, strength, df, table>>

NextLeader ==
    \/ DictInsert
    \/ CallWinnerFromDict
    \/ CallLbLeader
    \/ CallLeaderRowDistrict
    \/ CallLeaderRowAssembly

SpecLeader == InitLeader /\ [][NextLeader]_vars

(***************************************************************************)
(* Strength classifier.                                                    *)
(***************************************************************************)
STRENGTH_ORDER ==
    <<"-500 or less", "-200 to -499", "-100 to -199", "-50 to -99", "-1 to -49",
      "0", "1-49", "50-99", "100-199", "200-499", "500+">>


\* _lead_to_strength with the "-200 to -499" bucket closed at -500, open at -200
LeadToStrengthShiftedBound(cell) ==
    IF IsNa(cell) THEN "None"
    ELSE LET x == cell.v IN
    IF x < -500 THEN "-500 or less"
    ELSE IF -500 <= x /\ x < -200 THEN "-200 to -499"
    ELSE IF -200 <= x /\ x <= -100 THEN "-100 to -199"
    ELSE IF -100 < x /\ x <= -50 THEN "-50 to -99"
    ELSE IF -50 < x /\ x <= -1 THEN "-1 to -49"
    ELSE IF x = 0 THEN "0"
    ELSE IF 0 < x /\ x <= 49 THEN "1-49"
    ELSE IF 50 <= x /\ x <= 99 THEN "50-99"
    ELSE IF 100 <= x /\ x <= 199 THEN "100-199"
    ELSE IF 200 <= x /\ x <= 499 THEN "200-499"
    ELSE IF x >= 500 THEN "500+"
    ELSE "None"

\* _lead_to_strength putting a margin of 0 in the bucket below it
LeadToStrengthZeroBelow(cell) ==
    IF IsNa(cell) THEN "None"
    ELSE LET x == cell.v IN
    IF x <= -500 THEN "-500 or less"
    ELSE IF -500 < x /\ x <= -200 THEN "-200 to -499"
    ELSE IF -200 < x /\ x <= -100 THEN "-100 to -199"
    ELSE IF -100 < x /\ x <= -50 THEN "-50 to -99"
    ELSE IF -50 < x /\ x <= 0 THEN "-1 to -49"
    ELSE IF 0 < x /\ x <= 49 THEN "1-49"
    ELSE IF 50 <= x /\ x <= 99 THEN "50-99"
    ELSE IF 100 <= x /\ x <= 199 THEN "100-199"
    ELSE IF 200 <= x /\ x <= 499 THEN "200-499"
    ELSE IF x >= 500 THEN "500+"
    ELSE "None"

LeadToStrength(cell) ==
    IF IsNa(cell) THEN "None"
    ELSE LET x == cell.v IN
    IF x <= -500 THEN "-500 or less"
    ELSE IF -500 < x /\ x <= -200 THEN "-200 to -499"
    ELSE IF -200 < x /\ x <= -100 THEN "-100 to -199"
    ELSE IF -100 < x /\ x <= -50 THEN "-50 to -99"
    ELSE IF -50 < x /\ x <= -1 THEN "-1 to -49"
    ELSE IF x = 0 THEN "0"
    ELSE IF 0 < x /\ x <= 49 THEN "1-49"
    ELSE IF 50 <= x /\ x <= 99 THEN "50-99"
    ELSE IF 100 <= x /\ x <= 199 THEN "100-199"
    ELSE IF 200 <= x /\ x <= 499 THEN "200-499"
    ELSE IF x >= 500 THEN "500+"
    ELSE "None"

\* a Lead cell: missing, or an integer margin
InitStrength ==
    /\ d = <<>>
    /\ leader = Unset
    /\ lead \in {NA} \cup { Num(x) : x \in (0 - MaxLead)..MaxLead }
    /\ strength = "unset"
    /\ df = <<>>
    /\ table = Unset

\* d["Lead"].apply(_lead_to_strength), one cell
CallLeadToStrength ==
    /\ strength = "unset"
    /\ strength' = LeadToStrength(lead)
    /\ UNCHANGED <<d, leader, lead, df, table>>

NextStrength == CallLeadToStrength

SpecStrength == InitStrength /\ [][NextStrength]_vars

(***************************************************************************)
(* DataFrame helpers.                                                      *)
(***************************************************************************)
\* the order python gives the labels of the model (str comparison)
LABEL_SORTED ==
    <<"Block", "CPI(M)", "Corporation", "District", "G01", "Grama", "INC", "IND",
      "IUML", "LB1", "LB2", "LB3", "LDF", "M02", "Municipality", "NDA", "OTH",
      "T03", "Total", "Township", "UDF", "UNKNOWN", "W1", "W2">>

StrRank(label) == CHOOSE i \in 1..Len(LABEL_SORTED) : LABEL_SORTED[i] = label

\* sorted(labels, key=str)
RECURSIVE SortedLabels(_)
SortedLabels(S) ==
    IF S = {} THEN <<>>
    ELSE LET first == CHOOSE x \in S : \A y \in S : StrRank(x) <= StrRank(y)
         IN <<first>> \o SortedLabels(S \ {first})

\* lexicographic "less than" over equally long tuples of integers
RECURSIVE TupleLess(_, _)
TupleLess(a, b) ==
    IF a = <<>> THEN FALSE
    ELSE IF Head(a) # Head(b) THEN Head(a) < Head(b)
    ELSE TupleLess(Tail(a), Tail(b))

\* sort_values: rows in ascending order of their keys (keys[i] the key of
\* rows[i], a tuple of integers), rows with equal keys in their given order
SortByKey(rows, keys) ==
    LET n == Len(rows)
        Pos(i) == 1 + Cardinality({ j \in 1..n :
                        \/ TupleLess(keys[j], keys[i])
                        \/ keys[j] = keys[i] /\ j < i })
    IN [p \in 1..n |-> rows[CHOOSE i \in 1..n : Pos(i) = p]]

\* sort_values by a single column with the default kind="quicksort", which
\* is not stable: every arrangement of the rows in ascending order of their
\* keys, rows with equal keys in any order
SortsByKey(rows, keys) ==
    LET n == Len(rows)
        perms == { p \in [1..n -> 1..n] : \A i, j \in 1..n : p[i] = p[j] => i = j }
        sorted == { p \in perms :
                      \A i, j \in 1..n : i < j => ~TupleLess(keys[p[j]], keys[p[i]]) }
    IN { [i \in 1..n |-> rows[p[i]]] : p \in sorted }

\* the members of S in the order of the list `order`
InOrderOf(order, S) == LET In(x) == x \in S IN SelectSeq(order, In)

\* Series.astype(str) on a label column: a missing value becomes "nan"
AsTypeStr(label) == IF label = "NaN" THEN "nan" ELSE label

\* str.title() on the labels of the model
StrTitle(label) ==
    CASE label = "ward" -> "Ward"
      [] label = "block" -> "Block"
      [] label = "grama" -> "Grama"
      [] label = "nan" -> "Nan"
      [] OTHER -> label

\* df.columns
Columns(frame) == IF frame = <<>> THEN {} ELSE DOMAIN frame[1]

\* series == n on a nullable Int64 column used as a boolean mask (NA is False)
RankIs(row, n) == ~IsNa(row.Rank) /\ row.Rank.v = n

(***************************************************************************)
(* Opponent breakdown (Front page).                                        *)
(***************************************************************************)
\* _ward_join_keys
WardJoinKeys(cols) ==
    IF "WardCode" \in cols THEN <<"WardCode">>
    ELSE LET Present(c) == c \in cols
             byNo == SelectSeq(<<"District", "LBName", "WardNo">>, Present)
             byName == SelectSeq(<<"District", "LBName", "WardName">>, Present)
         IN IF "WardNo" \in cols /\ byNo # <<>> THEN byNo
            ELSE IF byName # <<>> THEN byName
            ELSE <<"WardName">>

\* the values of the key columns of a row
KeyOf(row, keys) == [i \in 1..Len(keys) |-> row[keys[i]]]

\* RankedFronts without the test of the rank: every ranked row
RankedFrontsAnyRank(dd, n, keys) ==
    LET Hit(row) == ~IsNa(row.Rank)
        hits == SelectSeq(dd, Hit)
    IN [i \in 1..Len(hits) |-> [key |-> KeyOf(hits[i], keys), Front |-> hits[i].Front]]

\* d[d["Rank"] == n][keys + ["Front"]], Front renamed
RankedFronts(dd, n, keys) ==
    LET Hit(row) == RankIs(row, n)
        hits == SelectSeq(dd, Hit)
    IN [i \in 1..Len(hits) |-> [key |-> KeyOf(hits[i], keys), Front |-> hits[i].Front]]

\* a left merge that keeps one row per left row: its first match
MergeLeftFirstMatch(left, right) ==
    [i \in 1..Len(left) |->
        LET Match(r) == r.key = left[i].key
            m == SelectSeq(right, Match)
        IN [key |-> left[i].key, Front |-> left[i].Front,
            Other |-> IF m = <<>> THEN "NaN" ELSE m[1].Front]]

\* left.merge(right, on=keys, how="left"): a row per matching right row, and
\* one row with a missing Other when no right row matches
RECURSIVE MergeLeft(_, _)
MergeLeft(left, right) ==
    IF left = <<>> THEN <<>>
    ELSE LET l == Head(left)
             Match(r) == r.key = l.key
             m == SelectSeq(right, Match)
             joined == IF m = <<>>
                       THEN <<[key |-> l.key, Front |-> l.Front, Other |-> "NaN"]>>
                       ELSE [i \in 1..Len(m) |->
                               [key |-> l.key, Front |-> l.Front, Other |-> m[i].Front]]
         IN joined \o MergeLeft(Tail(left), right)

\* merged.groupby(Other, dropna=True).size(): a count per label, the rows
\* with a missing label dropped
GroupSizeDropNa(merged) ==
    LET labels == { merged[i].Other : i \in 1..Len(merged) } \ {"NaN"}
    IN [g \in labels |-> LET Hit(row) == row.Other = g IN Len(SelectSeq(merged, Hit))]

\* index.fillna("UNKNOWN") on the result of the groupby
IndexFillNa(sizes, fill) ==
    LET relabel(g) == IF g = "NaN" THEN fill ELSE g
    IN [g \in { relabel(x) : x \in DOMAIN sizes } |->
          IF g = fill /\ "NaN" \in DOMAIN sizes THEN sizes["NaN"] ELSE sizes[g]]

\* table_opponent_front: rows [Front, RunnerUp, Winners], RunnerUp being
\* "Runner-up (when Selected Won)" and Winners "Winners (when Selected Second)"
\* the sort key of a row with Total ascending
OppSortKeyTotalAscending(row) ==
    <<row.RunnerUp + row.Winners, StrRank(row.Front)>>

\* out["Total"] and sort_values(["Total", "Front"], ascending=[False, True])
OppSortKey(row) ==
    <<0 - (row.RunnerUp + row.Winners), StrRank(row.Front)>>

TableOpponentFront(scope_df, sel_front) ==
    IF ~({"Rank", "Front"} \subseteq Columns(scope_df)) THEN <<>>
    ELSE LET IsWard(row) == row.TierNorm = "Ward"
             dd == SelectSeq(scope_df, IsWard)
         IN IF dd = <<>> THEN <<>>
            ELSE
            LET keys == WardJoinKeys(Columns(dd))
                winners == RankedFronts(dd, 1, keys)
                runners == RankedFronts(dd, 2, keys)
                IsSel(row) == row.Front = sel_front
                wins_sel == SelectSeq(winners, IsSel)
                ru_vs_selwin ==
                    IndexFillNa(GroupSizeDropNa(MergeLeft(wins_sel, runners)), "UNKNOWN")
                sec_sel == SelectSeq(runners, IsSel)
                win_vs_selsec ==
                    IndexFillNa(GroupSizeDropNa(MergeLeft(sec_sel, winners)), "UNKNOWN")
                all_fronts == SortedLabels(DOMAIN ru_vs_selwin \cup DOMAIN win_vs_selsec)
                out == [i \in 1..Len(all_fronts) |->
                          LET f == all_fronts[i]
                          IN [Front |-> f,
                              RunnerUp |-> IF f \in DOMAIN ru_vs_selwin
                                           THEN ru_vs_selwin[f] ELSE 0,
                              Winners |-> IF f \in DOMAIN win_vs_selsec
                                          THEN win_vs_selsec[f] ELSE 0]]
                by == [i \in 1..Len(out) |-> OppSortKey(out[i])]
            IN SortByKey(out, by)

\* the rows a scope of the Front page can hold: ward-tier candidates of two
\* wards, and a block-tier winner
OppRows ==
    [WardCode : {"W1", "W2"}, TierNorm : {"Ward"}, Front : {"UDF", "LDF"},
     Rank : {Num(1), Num(2), NA}]
    \cup [WardCode : {"W1"}, TierNorm : {"Block"}, Front : {"UDF"},
          Rank : {Num(1)}]

InitOpp ==
    /\ d = <<>>
    /\ leader = Unset
    /\ lead = NA
    /\ strength = "unset"
    /\ df = <<>>
    /\ table = Unset

\* one more row of the loaded data
LoadOppRow ==
    /\ table = Unset
    /\ Len(df) < MaxOppRows
    /\ \E row \in OppRows : df' = Append(df, row)
    /\ UNCHANGED <<d, leader, lead, strength, table>>

\* t_opp = table_opponent_front(scoped, sel_front)
CallTableOpponentFront ==
    /\ table = Unset
    /\ \E sel_front \in {"UDF", "LDF"} :
          table' = [fn |-> "table_opponent_front", sel_front |-> sel_front,
                    rows |-> TableOpponentFront(df, sel_front)]
    /\ UNCHANGED <<d, leader, lead, strength, df>>

NextOpp ==
    \/ LoadOppRow
    \/ CallTableOpponentFront

SpecOpp == InitOpp /\ [][NextOpp]_vars

(***************************************************************************)
(* Rank tables: LBType x Rank and LBName x Rank of the Front page, and     *)
(* Party x Rank of the District page.                                      *)
(***************************************************************************)
\* sorted(...) of a set of integers
RECURSIVE SortedInts(_)
SortedInts(S) ==
    IF S = {} THEN <<>>
    ELSE <<SetMin(S)>> \o SortedInts(S \ {SetMin(S)})

\* the crosstab with a column only for the ranks of the first group
CrosstabRankFirstGroupRanks(frame, field) ==
    LET Valid(row) == row[field] # "NaN" /\ ~IsNa(row.Rank)
        kept == SelectSeq(frame, Valid)
        labels == { kept[i][field] : i \in 1..Len(kept) }
        first == IF kept = <<>> THEN "NaN" ELSE SortedLabels(labels)[1]
        ranks == { kept[i].Rank.v : i \in { k \in 1..Len(kept) : kept[k][field] = first } }
    IN [index |-> SortedLabels(labels),
        columns |-> SortedInts(ranks),
        cell |-> [g \in labels |-> [r \in ranks |->
                    LET Hit(row) == row[field] = g /\ row.Rank.v = r
                    IN Len(SelectSeq(kept, Hit))]]]

\* pd.crosstab(frame[field], frame["Rank"]): the rows with a missing label or
\* a missing rank dropped, the labels of each axis sorted, a count per cell
CrosstabRank(frame, field) ==
    LET Valid(row) == row[field] # "NaN" /\ ~IsNa(row.Rank)
        kept == SelectSeq(frame, Valid)
        labels == { kept[i][field] : i \in 1..Len(kept) }
        ranks == { kept[i].Rank.v : i \in 1..Len(kept) }
    IN [index |-> SortedLabels(labels),
        columns |-> SortedInts(ranks),
        cell |-> [g \in labels |-> [r \in ranks |->
                    LET Hit(row) == row[field] = g /\ row.Rank.v = r
                    IN Len(SelectSeq(kept, Hit))]]]

\* xt.reindex(rows, fill_value=0)
ReindexRows(xt, rows) ==
    [index |-> rows,
     columns |-> xt.columns,
     cell |-> [g \in Range(rows) |->
                 IF g \in DOMAIN xt.cell THEN xt.cell[g]
                 ELSE [r \in Range(xt.columns) |-> 0]]]

\* xt[cols].sum(axis=1) for the row g
RowSum(xt, g, cols) == SeqSum([i \in 1..Len(cols) |-> xt.cell[g][cols[i]]])

\* xt.get("Won", 0) for the row g: column 1 is the one renamed "Won"
WonOf(xt, g) == IF 1 \in Range(xt.columns) THEN xt.cell[g][1] ELSE 0

\* np.where(contested > 0, won / contested * 100, 0.0)
StrikeRate(won, contested) ==
    IF contested > 0 THEN <<won * 100, contested>> ELSE <<0, 1>>

\* rank_cols read after the rename, "Won" forgotten
RankColsFrontIntOnly(columns) ==
    LET NotWon(c) == c # 1 IN SelectSeq(columns, NotWon)

\* rank_cols of table_lbtype_performance_front: the integer columns and "Won"
RankColsFront(columns) == columns

\* a row of a rank table: the counts per rank column (rank 1 shown as "Won"),
\* Contested and the strike rate
RankRow(xt, g, contested, rate) ==
    [label |-> g, rank |-> xt.cell[g], Contested |-> contested, Strike |-> rate]

\* table_lbtype_performance_front
TableLbtypePerformanceFront(scope_df, front, include_block_district) ==
    IF ~({"Rank", "TierNorm"} \subseteq Columns(scope_df)) THEN <<>>
    ELSE
    LET tiers == IF include_block_district THEN {"Ward", "Block", "District"}
                 ELSE {"Ward"}
        InScope(row) == row.TierNorm \in tiers /\ row.Front = front
        dd == SelectSeq(scope_df, InScope)
        base_rows == IF include_block_district
                     THEN <<"Grama", "Municipality", "Corporation", "Block", "District">>
                     ELSE <<"Grama", "Municipality", "Corporation">>
        \* pd.Categorical(..., categories=base_rows): other labels become NaN
        cat == [i \in 1..Len(dd) |->
                  [dd[i] EXCEPT !.LBType = IF @ \in Range(base_rows) THEN @ ELSE "NaN"]]
        xt == ReindexRows(CrosstabRank(cat, "LBType"), base_rows)
        rank_cols == RankColsFront(xt.columns)
    IN IF dd = <<>> THEN <<>>
       ELSE [i \in 1..Len(base_rows) |->
               LET g == base_rows[i]
                   contested == RowSum(xt, g, rank_cols)
               IN RankRow(xt, g, contested, StrikeRate(WonOf(xt, g), contested))]

\* the sort key of a rank table row: Won then Contested, both descending,
\* of which only Won is left
RankSortKeyWonOnly(row, has_won) ==
    IF has_won THEN <<0 - row.rank[1]>> ELSE <<0 - row.Contested>>

\* by=[c for c in ["Won", "Contested"] if c in columns], ascending=False
RankSortKey(row, has_won) ==
    IF has_won THEN <<0 - row.rank[1], 0 - row.Contested>>
    ELSE <<0 - row.Contested>>

\* sort_values(by=sort_cols, ascending=[False] * len(sort_cols)): a stable
\* lexsort over two columns, the default quicksort over one
SortRankRows(rows, has_won) ==
    LET by == [i \in 1..Len(rows) |-> RankSortKey(rows[i], has_won)]
    IN IF has_won THEN {SortByKey(rows, by)} ELSE SortsByKey(rows, by)

\* rank_xt / table_rank_party of the District page, from the district's
\* rows: the tables the sort can produce
RankXt(df_d, sel_front) ==
    LET InScope(row) == row.TierNorm = "Ward" /\ row.Front = sel_front
        df_w == SelectSeq(df_d, InScope)
        xt == CrosstabRank(df_w, "Party")
        rank_cols_sorted == xt.columns
        NotWon(c) == c # 1
        contested_cols ==
            (IF 1 \in Range(xt.columns) THEN <<1>> ELSE <<>>)
                \o SelectSeq(rank_cols_sorted, NotWon)
        rows == [i \in 1..Len(xt.index) |->
                   LET g == xt.index[i]
                       contested == RowSum(xt, g, contested_cols)
                   IN RankRow(xt, g, contested,
                              IF 1 \in Range(xt.columns)
                              THEN StrikeRate(xt.cell[g][1], contested)
                              ELSE <<0, 1>>)]
    IN IF df_w = <<>> THEN {<<>>}
       ELSE SortRankRows(rows, 1 \in Range(xt.columns))

\* perf_table of the Local Body page, from the ward-tier rows of the
\* district: Party x Rank over every front of the selected local body
PerfTable(df_d, sel_lb) ==
    LET InLb(row) == row.TierNorm = "Ward" /\ row.LBName = sel_lb
        df_party == SelectSeq(df_d, InLb)
        xt == CrosstabRank(df_party, "Party")
        rows == [i \in 1..Len(xt.index) |->
                   LET g == xt.index[i]
                   IN [label |-> g, rank |-> xt.cell[g],
                       Contested |-> RowSum(xt, g, xt.columns)]]
    IN IF ~({"Party", "Rank"} \subseteq Columns(df_party)) THEN {<<>>}
       ELSE SortRankRows(rows, 1 \in Range(xt.columns))

\* ct / t2 of the Front page's Assembly tab, with its Total row
TableCt(scoped, sel_front) ==
    LET IsWard(row) == row.TierNorm = "Ward"
        asm_ward == SelectSeq(scoped, IsWard)
        IsSel(row) == row.Front = sel_front
        df_p == SelectSeq(asm_ward, IsSel)
        ct == CrosstabRank(df_p, "LBName")
        all_ranks == ct.columns
        NotWon(c) == c # 1
        other_ranks == SelectSeq(all_ranks, NotWon)
        ordered_cols == (IF 1 \in Range(ct.columns) THEN <<1>> ELSE <<>>) \o other_ranks
        t2 == [i \in 1..Len(ct.index) |->
                 LET g == ct.index[i]
                     contested == IF ordered_cols # <<>> THEN RowSum(ct, g, ordered_cols)
                                  ELSE 0
                 IN RankRow(ct, g, contested,
                            IF 1 \in Range(ct.columns)
                            THEN StrikeRate(ct.cell[g][1], contested)
                            ELSE <<0, 1>>)]
        \* total_row[col] = int(t2[col].sum()) for every column but LBName and
        \* the strike rate
        total_rank == [r \in Range(ct.columns) |->
                         SeqSum([i \in 1..Len(t2) |-> t2[i].rank[r]])]
        total_cont == SeqSum([i \in 1..Len(t2) |-> t2[i].Contested])
        total_won == IF 1 \in Range(ct.columns) THEN total_rank[1] ELSE 0
        total_row == [label |-> "Total", rank |-> total_rank, Contested |-> total_cont,
                      Strike |-> IF total_cont > 0 THEN <<total_won * 100, total_cont>>
                                 ELSE <<0, 1>>]
        by == [i \in 1..Len(t2) |-> <<StrRank(t2[i].label)>>]
    IN IF df_p = <<>> \/ ~({"Rank", "LBName"} \subseteq Columns(df_p)) THEN <<>>
       ELSE SortByKey(t2, by) \o <<total_row>>

\* the Local Body tab summary of the Front page: "Won X seats out of Y
\* contested", or nothing when the local body has no ward-tier row
LbSummaryFront(df_d, sel_lb, sel_front) ==
    LET InLb(row) == row.LBName = sel_lb
        scoped == SelectSeq(df_d, InLb)
        IsWard(row) == row.TierNorm = "Ward"
        lb_ward == SelectSeq(scoped, IsWard)
        IsSel(row) == row.Front = sel_front
        lb_front == SelectSeq(lb_ward, IsSel)
        IsWinner(row) == RankIs(row, 1)
    IN IF lb_ward = <<>> THEN <<>>
       ELSE << [label |-> sel_lb,
                Contested |-> Len(lb_front),
                Won |-> IF "Rank" \in Columns(lb_front)
                        THEN Len(SelectSeq(lb_front, IsWinner)) ELSE 0] >>

\* AgeGroup40 of a row
AgeGroup40(row) ==
    IF IsNa(row.Age) THEN "Unknown"
    ELSE IF row.Age.v < 40 THEN "Under 40" ELSE "Over 40"

\* age_summary of the Other page for the rows of the selected party
AgeSummary(frame, sel_party) ==
    LET OfParty(row) == row.Party = sel_party
        df_party == SelectSeq(frame, OfParty)
        observed == { AgeGroup40(df_party[i]) : i \in 1..Len(df_party) }
        groups == InOrderOf(<<"Under 40", "Over 40", "Unknown">>, observed)
    IN IF df_party = <<>> \/ "Age" \notin Columns(df_party) THEN <<>>
       ELSE [k \in 1..Len(groups) |->
               LET InGroup(row) == AgeGroup40(row) = groups[k]
                   rows == SelectSeq(df_party, InGroup)
                   Named(row) == row.Candidate # "NaN"
                   IsWinner(row) == RankIs(row, 1)
               IN [label |-> groups[k],
                   Contested |-> Len(SelectSeq(rows, Named)),
                   Won |-> Len(SelectSeq(rows, IsWinner))]]

\* the groups a candidate row can belong to
RankGroups ==
    { [LBType |-> "Grama", LBName |-> "LB1", Party |-> "INC", Age |-> Num(30)],
      [LBType |-> "Municipality", LBName |-> "LB2", Party |-> "IUML", Age |-> Num(50)],
      [LBType |-> "Township", LBName |-> "LB2", Party |-> "INC", Age |-> NA] }

\* the rows a scope can hold: ward-tier candidates of the front UDF, a
\* ward-tier winner of the front LDF and a block-tier runner-up of UDF
RankRows ==
    { [LBType |-> g.LBType, LBName |-> g.LBName, Party |-> g.Party,
       TierNorm |-> "Ward", Front |-> "UDF", Rank |-> r,
       Age |-> g.Age, Candidate |-> "A"] :
         g \in RankGroups, r \in {Num(1), Num(2), Num(3), NA} }
    \cup { [LBType |-> "Grama", LBName |-> "LB1", Party |-> "CPI(M)",
            TierNorm |-> "Ward", Front |-> "LDF", Rank |-> Num(1),
            Age |-> Num(50), Candidate |-> "A"],
           [LBType |-> "Block", LBName |-> "LB1", Party |-> "INC",
            TierNorm |-> "Block", Front |-> "UDF", Rank |-> Num(2),
            Age |-> Num(30), Candidate |-> "NaN"] }

InitRank ==
    /\ d = <<>>
    /\ leader = Unset
    /\ lead = NA
    /\ strength = "unset"
    /\ df = <<>>
    /\ table = Unset

\* one more row of the loaded data
LoadRankRow ==
    /\ table = Unset
    /\ Len(df) < MaxRankRows
    /\ \E row \in RankRows : df' = Append(df, row)
    /\ UNCHANGED <<d, leader, lead, strength, table>>

\* t_perf = table_lbtype_performance_front(scoped, sel_front, ...)
CallTableLbtypePerformanceFront ==
    /\ table = Unset
    /\ \E sel_front \in {"UDF", "LDF"}, include_block_district \in BOOLEAN :
          table' = [fn |-> "table_lbtype_performance_front", sel_front |-> sel_front,
                    include_block_district |-> include_block_district,
                    rows |-> TableLbtypePerformanceFront(df, sel_front,
                                                         include_block_district)]
    /\ UNCHANGED <<d, leader, lead, strength, df>>

\* the Rank x Party table of the District page
CallRankXt ==
    /\ table = Unset
    /\ \E sel_front \in {"UDF", "LDF"} :
       \E rows \in RankXt(df, sel_front) :
          table' = [fn |-> "rank_xt", sel_front |-> sel_front,
                    include_block_district |-> FALSE,
                    rows |-> rows]
    /\ UNCHANGED <<d, leader, lead, strength, df>>

\* the Party Performance table of the Local Body page
CallPerfTable ==
    /\ table = Unset
    /\ \E sel_lb \in { df[i].LBName : i \in 1..Len(df) } :
          \E rows \in PerfTable(df, sel_lb) :
             table' = [fn |-> "perf_table", sel_lb |-> sel_lb, rows |-> rows]
    /\ UNCHANGED <<d, leader, lead, strength, df>>

\* the performance table of the Front page's Assembly tab
CallTableCt ==
    /\ table = Unset
    /\ \E sel_front \in {"UDF", "LDF"} :
          table' = [fn |-> "ct", sel_front |-> sel_front,
                    include_block_district |-> FALSE,
                    rows |-> TableCt(df, sel_front)]
    /\ UNCHANGED <<d, leader, lead, strength, df>>

\* the summary of the Front page's Local Body tab
CallLbSummaryFront ==
    /\ table = Unset
    /\ df # <<>>
    /\ \E sel_front \in {"UDF", "LDF"}, sel_lb \in { df[i].LBName : i \in 1..Len(df) } :
          table' = [fn |-> "lb_summary", sel_front |-> sel_front, sel_lb |-> sel_lb,
                    rows |-> LbSummaryFront(df, sel_lb, sel_front)]
    /\ UNCHANGED <<d, leader, lead, strength, df>>

\* the Under 40 / Over 40 table of the Other page
CallAgeSummary ==
    /\ table = Unset
    /\ df # <<>>
    /\ \E sel_party \in { df[i].Party : i \in 1..Len(df) } :
          table' = [fn |-> "age_summary", sel_party |-> sel_party,
                    rows |-> AgeSummary(df, sel_party)]
    /\ UNCHANGED <<d, leader, lead, strength, df>>

NextRank ==
    \/ LoadRankRow
    \/ CallTableLbtypePerformanceFront
    \/ CallRankXt
    \/ CallTableCt
    \/ CallLbSummaryFront
    \/ CallAgeSummary
    \/ CallPerfTable

SpecRank == InitRank /\ [][NextRank]_vars

(***************************************************************************)
(* Seat crosstab Front x LBType (Overall and District pages).              *)
(***************************************************************************)
\* pd.crosstab(frame["Front"], frame["LBType"]), LBType a Categorical: the
\* rows with a missing label dropped, the fronts sorted, the types in the
\* order of their categories, a count per cell
CrosstabSeats(frame, categories) ==
    LET Valid(row) == row.Front # "NaN" /\ row.LBType # "NaN"
        kept == SelectSeq(frame, Valid)
        fronts == { kept[i].Front : i \in 1..Len(kept) }
        types == { kept[i].LBType : i \in 1..Len(kept) }
    IN [index |-> SortedLabels(fronts),
        columns |-> InOrderOf(categories, types),
        cell |-> [f \in fronts |-> [t \in types |->
                    LET Hit(row) == row.Front = f /\ row.LBType = t
                    IN Len(SelectSeq(kept, Hit))]]]

\* xt.reindex(columns=cols, fill_value=0)
ReindexColumns(xt, cols) ==
    [index |-> xt.index,
     columns |-> cols,
     cell |-> [g \in Range(xt.index) |-> [c \in Range(cols) |->
                 IF c \in Range(xt.columns) THEN xt.cell[g][c] ELSE 0]]]

\* the crosstab left with the rows it discovered
ReindexIndexSkipped(xt, rows) == xt

\* xt.reindex(rows, fill_value=0)
ReindexIndex(xt, rows) ==
    [index |-> rows,
     columns |-> xt.columns,
     cell |-> [g \in Range(rows) |->
                 IF g \in Range(xt.index) THEN xt.cell[g]
                 ELSE [c \in Range(xt.columns) |-> 0]]]

\* xt["Total"] = xt.sum(axis=1)
AddTotalColumn(xt) ==
    [index |-> xt.index,
     columns |-> Append(xt.columns, "Total"),
     cell |-> [g \in Range(xt.index) |->
                 [c \in Range(xt.columns) \cup {"Total"} |->
                    IF c = "Total"
                    THEN SeqSum([i \in 1..Len(xt.columns) |-> xt.cell[g][xt.columns[i]]])
                    ELSE xt.cell[g][c]]]]

\* the Total row summed before the Total column exists, its Total cell 0
AddTotalRowDataColumnsOnly(xt) ==
    [index |-> Append(xt.index, "Total"),
     columns |-> xt.columns,
     cell |-> [g \in Range(xt.index) \cup {"Total"} |->
                 IF g = "Total"
                 THEN [c \in Range(xt.columns) |->
                         IF c = "Total" THEN 0
                         ELSE SeqSum([i \in 1..Len(xt.index) |-> xt.cell[xt.index[i]][c]])]
                 ELSE xt.cell[g]]]

\* pd.concat([xt, DataFrame([xt.sum()], index=["Total"])])
AddTotalRow(xt) ==
    [index |-> Append(xt.index, "Total"),
     columns |-> xt.columns,
     cell |-> [g \in Range(xt.index) \cup {"Total"} |->
                 IF g = "Total"
                 THEN [c \in Range(xt.columns) |->
                         SeqSum([i \in 1..Len(xt.index) |-> xt.cell[xt.index[i]][c]])]
                 ELSE xt.cell[g]]]

\* df_winners taken without the test of the rank
SeatWinnersEveryRank(frame) ==
    [i \in 1..Len(frame) |->
        [frame[i] EXCEPT !.LBType = IF @ \in Range(LBTYPE_ORDER) THEN @ ELSE "NaN"]]

\* df_winners: the rank-1 rows, or every row when there is no Rank column,
\* LBType made a Categorical over LBTYPE_ORDER (other labels become NaN)
SeatWinners(frame) ==
    LET IsWinner(row) == RankIs(row, 1)
        winners == IF "Rank" \in Columns(frame) THEN SelectSeq(frame, IsWinner)
                   ELSE frame
    IN [i \in 1..Len(winners) |->
          [winners[i] EXCEPT !.LBType = IF @ \in Range(LBTYPE_ORDER) THEN @ ELSE "NaN"]]

\* _apply_district_filter
ApplyDistrictFilter(frame, sel_district) ==
    IF sel_district = "All Kerala" \/ "District" \notin Columns(frame) THEN frame
    ELSE LET InDistrict(row) == row.District = sel_district
         IN SelectSeq(frame, InDistrict)

\* front_table of the Overall page
FrontTableOverall(frame, sel_district) ==
    LET df_winners == SeatWinners(ApplyDistrictFilter(frame, sel_district))
        seat_xt == ReindexIndex(
                      ReindexColumns(CrosstabSeats(df_winners, LBTYPE_ORDER), LBTYPE_ORDER),
                      FRONT_ORDER)
    IN AddTotalRow(AddTotalColumn(seat_xt))

\* table_front of the District page
TableFrontDistrict(frame, sel_district) ==
    LET InDistrict(row) == row.District = sel_district
        df_d_winners == SeatWinners(SelectSeq(frame, InDistrict))
        seat_xt == ReindexIndex(
                      ReindexColumns(CrosstabSeats(df_d_winners, LBTYPE_ORDER), LBTYPE_ORDER),
                      FRONT_ORDER)
    IN AddTotalColumn(seat_xt)

\* the rows the loaded data can hold: candidates of district D1, of fronts
\* and local-body types inside and outside the axes, and a winner of D2
SeatRows ==
    [District : {"D1"}, Front : {"UDF", "LDF", "IND"},
     LBType : {"Grama", "Block", "Township"}, Rank : {Num(1), Num(2)}]
    \cup { [District |-> "D2", Front |-> "UDF", LBType |-> "Grama", Rank |-> Num(1)] }

InitSeat ==
    /\ d = <<>>
    /\ leader = Unset
    /\ lead = NA
    /\ strength = "unset"
    /\ df = <<>>
    /\ table = Unset

\* one more row of the loaded data
LoadSeatRow ==
    /\ table = Unset
    /\ Len(df) < MaxSeatRows
    /\ \E row \in SeatRows : df' = Append(df, row)
    /\ UNCHANGED <<d, leader, lead, strength, table>>

\* the districts the District selectors offer
Districts(frame) == { frame[i].District : i \in 1..Len(frame) }

\* the Seats Won tab of the Overall page
CallFrontTableOverall ==
    /\ table = Unset
    /\ \E sel_district \in {"All Kerala"} \cup Districts(df) :
          table' = [fn |-> "front_table", sel_district |-> sel_district,
                    xt |-> FrontTableOverall(df, sel_district)]
    /\ UNCHANGED <<d, leader, lead, strength, df>>

\* the Seats Won table of the District page
CallTableFrontDistrict ==
    /\ table = Unset
    /\ \E sel_district \in (IF df = <<>> THEN {"None"} ELSE Districts(df)) :
          table' = [fn |-> "table_front", sel_district |-> sel_district,
                    xt |-> TableFrontDistrict(df, sel_district)]
    /\ UNCHANGED <<d, leader, lead, strength, df>>

NextSeat ==
    \/ LoadSeatRow
    \/ CallFrontTableOverall
    \/ CallTableFrontDistrict

SpecSeat == InitSeat /\ [][NextSeat]_vars

(***************************************************************************)
(* Normalisation of the loaded CSV (_read_csv_robust).                     *)
(***************************************************************************)
\* str.strip() on the labels of the CSV universe
StrStrip(label) ==
    CASE label = "W1 " -> "W1"
      [] label = "ward " -> "ward"
      [] OTHER -> label

\* pd.to_numeric(cell, errors="coerce"), then fillna(0).astype(int)
VotesToInt(cell) == IF IsNa(cell) THEN 0 ELSE cell.v

\* groupby("WardCode", dropna=False)["Votes"].transform("sum") for row i
WardTotalOf(frame, i) ==
    LET same == { j \in 1..Len(frame) : frame[j].WardCode = frame[i].WardCode }
    IN SumOver([j \in 1..Len(frame) |-> frame[j].Votes], same)

\* a float64: a quotient n/dd, or one of the IEEE specials
Fin(n, dd) == [kind |-> "finite", n |-> n, dd |-> dd]
Special(kind) == [kind |-> kind, n |-> 0, dd |-> 1]

\* votes / total * 100 in float64 under np.errstate(divide, invalid ignored)
VotePercentage(votes, total) ==
    IF total # 0 THEN Fin(votes * 100, total)
    ELSE IF votes = 0 THEN Special("nan")
    ELSE IF votes > 0 THEN Special("inf")
    ELSE Special("-inf")

\* pd.to_numeric(cell, errors="coerce").astype("Int64")
RankToInt64(cell) == IF IsNa(cell) THEN NA ELSE Num(cell.v)

\* the text columns of the model: those is_string_dtype holds of
TextColumns == {"WardCode", "Tier", "LBType"}

\* the columns title-cased after the strip
TitledColumns == {"Tier", "LBType"}

\* the ward totals computed whether or not the file has them
AddsWardTotalAlways(cols) == {"WardCode", "Votes"} \subseteq cols

\* whether the ward totals are computed: only when the file has none
AddsWardTotal(cols) ==
    "WardTotalVotes" \notin cols /\ {"WardCode", "Votes"} \subseteq cols

\* the normalisations of _read_csv_robust on the frame read from the file
ReadCsvRobust(raw) ==
    LET cols == Columns(raw)
        coerced == [i \in 1..Len(raw) |->
                      [f \in cols |-> IF f = "Votes" THEN VotesToInt(raw[i].Votes)
                                      ELSE IF f = "Rank" THEN RankToInt64(raw[i].Rank)
                                      ELSE raw[i][f]]]
        addTotal == AddsWardTotal(cols)
        cols2 == IF addTotal THEN cols \cup {"WardTotalVotes"} ELSE cols
        totalled == [i \in 1..Len(raw) |->
                       [f \in cols2 |-> IF f = "WardTotalVotes" /\ addTotal
                                        THEN WardTotalOf(coerced, i)
                                        ELSE coerced[i][f]]]
        addPct == "VotePercentage" \notin cols2 /\ {"Votes", "WardTotalVotes"} \subseteq cols2
        cols3 == IF addPct THEN cols2 \cup {"VotePercentage"} ELSE cols2
        withPct == [i \in 1..Len(raw) |->
                      [f \in cols3 |-> IF f = "VotePercentage" /\ addPct
                                       THEN VotePercentage(totalled[i].Votes,
                                                           totalled[i].WardTotalVotes)
                                       ELSE totalled[i][f]]]
        tidy == [i \in 1..Len(raw) |->
                   [f \in cols3 |-> IF f \in TextColumns THEN StrStrip(withPct[i][f])
                                    ELSE withPct[i][f]]]
    IN [i \in 1..Len(raw) |->
          [f \in cols3 |-> IF f \in TitledColumns THEN StrTitle(AsTypeStr(tidy[i][f]))
                           ELSE tidy[i][f]]]

\* the hygiene at the top of a page on the loaded frame: Votes coerced again
\* (the int64 cell is a number) and the text columns stripped again
PageHygiene(loaded) ==
    LET cols == Columns(loaded)
    IN [i \in 1..Len(loaded) |->
          [f \in cols |-> IF f = "Votes" THEN VotesToInt(Num(loaded[i].Votes))
                          ELSE IF f \in TextColumns THEN StrStrip(loaded[i][f])
                          ELSE loaded[i][f]]]

\* the rows a CSV file can hold: a ward code, padded or not, and a Votes
\* cell that is a number or not one; files with a WardTotalVotes column;
\* files with Rank, Tier and LBType columns, their labels padded or in
\* lower case
CsvRows ==
    [WardCode : {"W1", "W1 ", "W2"},
     Votes : {NA} \cup { Num(v) : v \in (0 - 1)..MaxVotes }]
    \cup [WardCode : {"W1"}, Votes : {Num(0), Num(1)}, WardTotalVotes : {0, 2}]
    \cup [WardCode : {"W1 "}, Votes : {NA, Num(1)}, Rank : {NA, Num(1)},
          Tier : {"ward ", "Ward"}, LBType : {"grama"}]

InitCsv ==
    /\ d = <<>>
    /\ leader = Unset
    /\ lead = NA
    /\ strength = "unset"
    /\ df = <<>>
    /\ table = Unset

\* one more row of the file, with the columns of the rows before it
AppendCsvRow ==
    /\ table = Unset
    /\ Len(df) < MaxCsvRows
    /\ \E row \in CsvRows :
          /\ IF df = <<>> THEN TRUE ELSE DOMAIN row = DOMAIN df[1]
          /\ df' = Append(df, row)
    /\ UNCHANGED <<d, leader, lead, strength, table>>

\* load_data: the file read and normalised
CallReadCsvRobust ==
    /\ table = Unset
    /\ df # <<>>
    /\ df' = ReadCsvRobust(df)
    /\ table' = [fn |-> "_read_csv_robust", raw |-> df]
    /\ UNCHANGED <<d, leader, lead, strength>>

\* a page script starts: df = load_data(...).copy(), then its hygiene
CallPageHygiene ==
    /\ table.fn = "_read_csv_robust"
    /\ df' = PageHygiene(df)
    /\ table' = [fn |-> "hygiene", raw |-> table.raw, loaded |-> df]
    /\ UNCHANGED <<d, leader, lead, strength>>

NextCsv ==
    \/ AppendCsvRow
    \/ CallReadCsvRobust
    \/ CallPageHygiene

SpecCsv == InitCsv /\ [][NextCsv]_vars

(***************************************************************************)
(* Local bodies led by front (District page).                              *)
(***************************************************************************)
\* df_lb without the test of the rank: every ward-tier candidate
DfLbAnyRank(df_d) ==
    LET Mask(row) == /\ row.Tier = "Ward"
                     /\ row.LBType \in {"Grama", "Municipality", "Corporation"}
    IN SelectSeq(df_d, Mask)

\* df_lb: the ward-tier winners of the Grama, Municipality and Corporation
\* bodies of the district
DfLb(df_d) ==
    LET Mask(row) == /\ row.Tier = "Ward"
                     /\ RankIs(row, 1)
                     /\ row.LBType \in {"Grama", "Municipality", "Corporation"}
    IN SelectSeq(df_d, Mask)

\* lb_summary: a row per (LBCode, LBName, LBType) with the seats of every
\* front observed, the fronts of FRONT_ORDER added with 0, and the Leader
LbSummary(df_lb) ==
    LET bodies == { [LBCode |-> df_lb[i].LBCode, LBName |-> df_lb[i].LBName,
                     LBType |-> df_lb[i].LBType] : i \in 1..Len(df_lb) }
        fronts == SortedLabels({ df_lb[i].Front : i \in 1..Len(df_lb) })
        Missing(fr) == fr \notin Range(fronts)
        columns == fronts \o SelectSeq(FRONT_ORDER, Missing)
        Seats(b, fr) ==
            LET Hit(row) == /\ row.LBCode = b.LBCode /\ row.LBName = b.LBName
                            /\ row.LBType = b.LBType /\ row.Front = fr
            IN Len(SelectSeq(df_lb, Hit))
        RowOf(b) ==
            LET counts == [k \in 1..Len(columns) |-> <<columns[k], Seats(b, columns[k])>>]
            IN [LBCode |-> b.LBCode, LBName |-> b.LBName, LBType |-> b.LBType,
                counts |-> counts, Leader |-> LeaderRowDistrict(counts)]
        codes == SortedLabels({ b.LBCode : b \in bodies })
        unsorted == [k \in 1..Len(codes) |->
                       RowOf(CHOOSE b \in bodies : b.LBCode = codes[k])]
    IN IF df_lb = <<>> THEN <<>> ELSE unsorted

\* lead_table: crosstab of Leader by LBType over the bodies with a single
\* leading front, reindexed to FRONT_ORDER and the three ward-tier types
LeadTable(leaders_only) ==
    LET lb_cols == <<"Grama", "Municipality", "Corporation">>
        pairs == [i \in 1..Len(leaders_only) |->
                    [Front |-> leaders_only[i].Leader, LBType |-> leaders_only[i].LBType]]
    IN ReindexColumns(ReindexIndex(CrosstabSeats(pairs, lb_cols), FRONT_ORDER), lb_cols)

\* lead_long: lead_table melted, the types without a count and the zero
\* rows dropped
LeadLong(lead_table) ==
    LET types == <<"Grama", "Municipality", "Corporation">>
        melted == [k \in 1..(Len(types) * Len(lead_table.index)) |->
                     LET t == types[((k - 1) \div Len(lead_table.index)) + 1]
                         f == lead_table.index[((k - 1) % Len(lead_table.index)) + 1]
                     IN [Front |-> f, LBType |-> t, Count |-> lead_table.cell[f][t]]]
        Positive(row) == row.Count > 0
    IN SelectSeq(melted, Positive)

\* sections 3 and 4 of the District page, from the rows of the selected
\* district: lb_summary, the leaders table when some body has a single
\* leading front, and the chart data read from lead_table, a name the script
\* binds only on that branch
DistrictLeadView(df_d) ==
    LET lb_summary == LbSummary(DfLb(df_d))
        HasLeader(row) == row.Leader \in Range(FRONT_ORDER)
        leaders_only == SelectSeq(lb_summary, HasLeader)
        bound == lb_summary # <<>> /\ leaders_only # <<>>
    IN IF bound
       THEN [fn |-> "lead_view", raised |-> "none", lb_summary |-> lb_summary,
             lead_table |-> LeadTable(leaders_only),
             lead_long |-> LeadLong(LeadTable(leaders_only))]
       ELSE [fn |-> "lead_view", raised |-> "NameError", lb_summary |-> lb_summary,
             lead_table |-> Unset, lead_long |-> Unset]

\* the local bodies of the district
LeadBodies ==
    { [LBCode |-> "G01", LBName |-> "LB1", LBType |-> "Grama"],
      [LBCode |-> "M02", LBName |-> "LB2", LBType |-> "Municipality"] }

\* the rows a district can hold: ward-tier candidates of two local bodies,
\* a winner in a body of another type and a block-tier winner
LeadRows ==
    { [LBCode |-> b.LBCode, LBName |-> b.LBName, LBType |-> b.LBType,
       Tier |-> "Ward", Front |-> f, Rank |-> r] :
         b \in LeadBodies, f \in {"UDF", "LDF", "IND"}, r \in {Num(1), Num(2)} }
    \cup { [LBCode |-> "T03", LBName |-> "LB3", LBType |-> "Township",
            Tier |-> "Ward", Front |-> "UDF", Rank |-> Num(1)],
           [LBCode |-> "G01", LBName |-> "LB1", LBType |-> "Block",
            Tier |-> "Block", Front |-> "UDF", Rank |-> Num(1)] }

InitLead ==
    /\ d = <<>>
    /\ leader = Unset
    /\ lead = NA
    /\ strength = "unset"
    /\ df = <<>>
    /\ table = Unset

\* one more row of the selected district
LoadLeadRow ==
    /\ table = Unset
    /\ Len(df) < MaxLeadRows
    /\ \E row \in LeadRows : df' = Append(df, row)
    /\ UNCHANGED <<d, leader, lead, strength, table>>

\* the District page run over the rows of the selected district
CallDistrictLeadView ==
    /\ table = Unset
    /\ df # <<>>
    /\ table' = DistrictLeadView(df)
    /\ UNCHANGED <<d, leader, lead, strength, df>>

NextLead ==
    \/ LoadLeadRow
    \/ CallDistrictLeadView

SpecLead == InitLead /\ [][NextLead]_vars

(***************************************************************************)
(* Column validation at the top of the page scripts.                       *)
(***************************************************************************)
PAGES == {"Overall", "District", "Assembly", "Local Body", "Other", "Reports"}

\* the columns a CSV file may or may not have
CsvColumns ==
    {"District", "Front", "Party", "LBType", "Tier", "Votes", "Candidate",
     "Assembly", "LBCode", "LBName"}

\* whether the script has a required-column check before its first read
HasColumnCheck(page) == page \in {"Overall", "District", "Assembly", "Reports"}

\* required / required_cols of the page's check
RequiredColumns(page) ==
    CASE page = "Overall" -> {"Front", "LBType", "Candidate", "Votes"}
      [] page = "District" -> {"District", "Front", "Party", "LBType", "Tier"}
      [] page = "Assembly" -> {"District", "Front", "LBType", "Tier", "Votes"}
      [] page = "Reports" -> {"Party", "District", "Votes", "Tier"}
      [] OTHER -> {}

\* the columns the script indexes without testing for them, in script
\* order, up to its first tables (over data with a row in every scope)
UnguardedReads(page) ==
    CASE page = "Overall" -> <<"Front", "LBType", "Votes">>
      [] page = "District" -> <<"District", "Front", "LBType", "Tier", "Party", "LBCode", "LBName">>
      [] page = "Assembly" -> <<"District", "Tier", "Front", "LBType", "Votes", "LBCode", "LBName">>
      [] page = "Local Body" -> <<"Tier", "District", "LBName", "Front", "Party">>
      [] page = "Other" -> <<"Party", "District">>
      [] page = "Reports" -> <<"Party", "Tier", "District", "Votes">>

\* one run of a page script over a frame with the columns `cols`: st.error
\* and st.stop() with the columns it names, a KeyError at the first read of
\* an absent column, or the tables rendered
OpenPage(page, cols) ==
    LET missing == RequiredColumns(page) \ cols
        no_assembly == page = "Assembly" /\ "Assembly" \notin cols
        Absent(c) == c \notin cols
        absent == SelectSeq(UnguardedReads(page), Absent)
    IN IF HasColumnCheck(page) /\ (missing # {} \/ no_assembly)
       THEN [fn |-> "page", page |-> page, outcome |-> "st.error",
             named |-> missing \cup (IF no_assembly THEN {"Assembly"} ELSE {})]
       ELSE IF absent # <<>>
       THEN [fn |-> "page", page |-> page, outcome |-> "KeyError",
             named |-> {absent[1]}]
       ELSE [fn |-> "page", page |-> page, outcome |-> "rendered", named |-> {}]

\* a loaded file of one row with any set of columns
InitPage ==
    /\ d = <<>>
    /\ leader = Unset
    /\ lead = NA
    /\ strength = "unset"
    /\ df \in { <<[c \in cols |-> "x"]>> : cols \in SUBSET CsvColumns }
    /\ table = Unset

\* the user opens a page
CallOpenPage ==
    /\ table = Unset
    /\ \E page \in PAGES : table' = OpenPage(page, DOMAIN df[1])
    /\ UNCHANGED <<d, leader, lead, strength, df>>

NextPage == CallOpenPage

SpecPage == InitPage /\ [][NextPage]_vars

(***************************************************************************)
(* Strength summary behind the strength chart (Front page).                *)
(***************************************************************************)
\* str(x).startswith("-") on the labels of the model
StartsWithMinus(label) ==
    label \in {"-500 or less", "-200 to -499", "-100 to -199", "-50 to -99", "-1 to -49"}

\* mirror_df["Status"] of a row of strength_summary
StrengthStatus(label) == IF StartsWithMinus(label) THEN "Lost" ELSE "Won"

\* strength_summary of _build_strength_chart_front: the rows (Strength,
\* Wards) in the order of _STRENGTH_ORDER, labels outside it turned to NaN
\* by pd.Categorical and sorted last; <<>> when the function returns None
StrengthSummary(scope_df, sel_front) ==
    LET InScope(row) == row.TierNorm = "Ward" /\ row.Front = sel_front
        dd == SelectSeq(scope_df, InScope)
        cols == Columns(dd)
        supplied == /\ "Strength" \in cols
                    /\ \E i \in 1..Len(dd) : dd[i].Strength # "NaN"
        s == IF supplied THEN [i \in 1..Len(dd) |-> AsTypeStr(dd[i].Strength)]
             ELSE IF "Lead" \in cols THEN [i \in 1..Len(dd) |-> LeadToStrength(dd[i].Lead)]
             ELSE <<>>
        NotNone(x) == x # "None"
        kept == SelectSeq(s, NotNone)
        labels == Range(kept)
        Wards(l) == LET Is(x) == x = l IN Len(SelectSeq(kept, Is))
        inside == InOrderOf(STRENGTH_ORDER, labels)
        outside == IF "nan" \in labels THEN <<"nan">> ELSE <<>>
    IN IF dd = <<>> THEN <<>>
       ELSE [i \in 1..Len(inside) |-> [Strength |-> inside[i], Wards |-> Wards(inside[i])]]
            \o [i \in 1..Len(outside) |-> [Strength |-> "NaN", Wards |-> Wards(outside[i])]]

\* the rows a scope can hold: without a Strength column, ward-tier
\* candidates with a margin or none; with one, candidates of UDF whose
\* Strength is a label or missing
ChartRows ==
    [TierNorm : {"Ward"}, Front : {"UDF", "LDF"},
     Lead : {NA, Num(0 - 60), Num(0), Num(75)}]
    \cup [TierNorm : {"Ward"}, Front : {"UDF"}, Lead : {NA, Num(75)},
          Strength : {"NaN", "0", "50-99"}]

InitChart ==
    /\ d = <<>>
    /\ leader = Unset
    /\ lead = NA
    /\ strength = "unset"
    /\ df = <<>>
    /\ table = Unset

\* one more row of the scope, with the columns of the rows before it
LoadChartRow ==
    /\ table = Unset
    /\ Len(df) < MaxChartRows
    /\ \E row \in ChartRows :
          /\ IF df = <<>> THEN TRUE ELSE DOMAIN row = DOMAIN df[1]
          /\ df' = Append(df, row)
    /\ UNCHANGED <<d, leader, lead, strength, table>>

\* fig_strength = _build_strength_chart_front(scoped, sel_front)
CallBuildStrengthChartFront ==
    /\ table = Unset
    /\ \E sel_front \in {"UDF", "LDF"} :
          table' = [fn |-> "strength_summary", sel_front |-> sel_front,
                    rows |-> StrengthSummary(df, sel_front)]
    /\ UNCHANGED <<d, leader, lead, strength, df>>

NextChart ==
    \/ LoadChartRow
    \/ CallBuildStrengthChartFront

SpecChart == InitChart /\ [][NextChart]_vars

(***************************************************************************)
(* Join key selection and the opponent breakdown over scopes of any        *)
(* columns (Front page).                                                   *)
(***************************************************************************)
\* the columns a scope handed to the opponent breakdown may carry
KeyColumns ==
    {"WardCode", "WardNo", "WardName", "District", "LBName",
     "Tier", "TierNorm", "Rank", "Front"}

\* the values of a column in a loaded row
KeyColumnValues(c) ==
    CASE c = "WardCode" -> {"W1", "W2"}
      [] c = "WardNo" -> {"1"}
      [] c = "WardName" -> {"Alpha"}
      [] c = "District" -> {"D1"}
      [] c = "LBName" -> {"LB1"}
      [] c = "Tier" -> {"ward"}
      [] c = "TierNorm" -> {"Ward", "Block"}
      [] c = "Rank" -> {Num(1), Num(2)}
      [] c = "Front" -> {"UDF", "LDF"}

\* the rows over a set of columns
RECURSIVE KeyRowsOver(_)
KeyRowsOver(cols) ==
    IF cols = {} THEN {<<>>}
    ELSE LET c == CHOOSE x \in cols : TRUE
         IN { (c :> v) @@ r : v \in KeyColumnValues(c), r \in KeyRowsOver(cols \ {c}) }

\* d["TierNorm"]: the column when the scope has it, else title-cased Tier
TierNormOf(row) ==
    IF "TierNorm" \in DOMAIN row THEN row.TierNorm ELSE StrTitle(row.Tier)

\* table_opponent_front run on a scope of any columns: whether it raised, and
\* the table it returned
OpponentFrontRun(scope_df, sel_front) ==
    LET cols == Columns(scope_df)
        Done(rows) == [raised |-> "none", rows |-> rows]
        KeyError == [raised |-> "KeyError", rows |-> <<>>]
    IN IF ~({"Rank", "Front"} \subseteq cols) THEN Done(<<>>)
       ELSE IF {"Tier", "TierNorm"} \cap cols = {} THEN KeyError
       ELSE LET dfull == [i \in 1..Len(scope_df) |->
                            ("TierNorm" :> TierNormOf(scope_df[i])) @@ scope_df[i]]
                IsWard(row) == row.TierNorm = "Ward"
                dd == SelectSeq(dfull, IsWard)
                keys == WardJoinKeys(Columns(dfull))
            IN IF dd = <<>> THEN Done(<<>>)
               ELSE IF ~(Range(keys) \subseteq Columns(dfull)) THEN KeyError
               ELSE Done(TableOpponentFront(dfull, sel_front))

InitKeys ==
    /\ d = <<>>
    /\ leader = Unset
    /\ lead = NA
    /\ strength = "unset"
    /\ df \in { <<r>> : r \in UNION { KeyRowsOver(cols) : cols \in SUBSET KeyColumns } }
    /\ table = Unset

\* one more row of the scope, over the same columns
LoadKeyRow ==
    /\ table = Unset
    /\ Len(df) < MaxKeyRows
    /\ \E row \in KeyRowsOver(Columns(df)) : df' = Append(df, row)
    /\ UNCHANGED <<d, leader, lead, strength, table>>

\* keys = _ward_join_keys(d)
CallWardJoinKeys ==
    /\ table = Unset
    /\ table' = [fn |-> "_ward_join_keys", keys |-> WardJoinKeys(Columns(df))]
    /\ UNCHANGED <<d, leader, lead, strength, df>>

\* t_opp = table_opponent_front(scoped, sel_front)
CallOpponentFrontRun ==
    /\ table = Unset
    /\ \E sel_front \in {"UDF", "LDF"} :
          LET run == OpponentFrontRun(df, sel_front)
          IN table' = [fn |-> "opponent_run", sel_front |-> sel_front,
                       raised |-> run.raised, rows |-> run.rows]
    /\ UNCHANGED <<d, leader, lead, strength, df>>

NextKeys ==
    \/ LoadKeyRow
    \/ CallWardJoinKeys
    \/ CallOpponentFrontRun

SpecKeys == InitKeys /\ [][NextKeys]_vars

(***************************************************************************)
(* Two views computed over one loaded scope (Front page): each engine      *)
(* operation takes its working frame from the scope, writes its columns    *)
(* to the working frame and computes its output from it.                   *)
(***************************************************************************)
\* the engine operations of the Front page
ViewOps ==
    {"table_votes_share_front", "table_lbtype_performance_front",
     "table_opponent_front", "_build_strength_chart_front",
     "_build_vote_bin_chart_front"}

\* the operations that assign a column of their working frame
WritingOps ==
    {"table_lbtype_performance_front", "table_opponent_front",
     "_build_vote_bin_chart_front"}

\* np.where(total > 0, front / total * 100, 0.0)
SharePercent(front_votes, total_votes) ==
    IF total_votes > 0 THEN <<front_votes * 100, total_votes>> ELSE <<0, 1>>

\* table_votes_share_front: a row per tier of TIERS_ORDER
TableVotesShareFront(scope_df, front) ==
    LET tiers == <<"Ward", "Block", "District">>
        Votes(S) == SumOver([i \in 1..Len(scope_df) |-> scope_df[i].Votes], S)
        total_by(t) == Votes({ i \in 1..Len(scope_df) : scope_df[i].TierNorm = t })
        front_by(t) == Votes({ i \in 1..Len(scope_df) :
                                 scope_df[i].TierNorm = t /\ scope_df[i].Front = front })
    IN [i \in 1..Len(tiers) |->
          [Tier |-> tiers[i], FrontVotes |-> front_by(tiers[i]),
           TotalVotes |-> total_by(tiers[i]),
           Share |-> SharePercent(front_by(tiers[i]), total_by(tiers[i]))]]

\* _vote_bin_order on the labels of the model
VoteBinOrder(labels) == InOrderOf(<<"<100", "200+">>, labels)

\* agg of _build_vote_bin_chart_front, computed from the working frame that
\* has its Status column: the categories of VoteBin and the wards per bar
VoteBinAgg(dd) ==
    LET pairs == { <<dd[i].VoteBin, dd[i].Status>> : i \in 1..Len(dd) }
    IN [bins |-> VoteBinOrder({ p[1] : p \in pairs }),
        bars |-> { [VoteBin |-> p[1], Status |-> p[2],
                    Wards |-> Cardinality({ i \in 1..Len(dd) :
                                  dd[i].VoteBin = p[1] /\ dd[i].Status = p[2] })] :
                   p \in pairs }]

\* the frame an operation works on: scope_df.copy(), scope_df[mask].copy(),
\* or the scope itself where the operation only reads it
WorkingFrame(op, scope_df, sel_front) ==
    LET OfFront(row) == row.TierNorm \in {"Ward", "Block", "District"}
                        /\ row.Front = sel_front
        WardOfFront(row) == row.TierNorm = "Ward" /\ row.Front = sel_front
    IN CASE op = "table_lbtype_performance_front" -> SelectSeq(scope_df, OfFront)
         [] op \in {"_build_strength_chart_front", "_build_vote_bin_chart_front"} ->
               SelectSeq(scope_df, WardOfFront)
         [] OTHER -> scope_df

\* the columns an operation assigns on its working frame: d["LBType"] as a
\* Categorical of base_rows, d["TierNorm"] and d["Rank"] re-derived, and
\* d["Status"] from the rank
WriteColumns(op, dd) ==
    LET base_rows == {"Grama", "Municipality", "Corporation", "Block", "District"}
    IN CASE op = "table_lbtype_performance_front" ->
               [i \in 1..Len(dd) |->
                  [dd[i] EXCEPT !.LBType = IF @ \in base_rows THEN @ ELSE "NaN"]]
         [] op = "_build_vote_bin_chart_front" ->
               [i \in 1..Len(dd) |->
                  ("Status" :> (IF RankIs(dd[i], 1) THEN "Won" ELSE "Not won")) @@ dd[i]]
         [] OTHER -> dd

\* what an operation returns, computed from its working frame
ViewOutput(op, dd, sel_front) ==
    CASE op = "table_votes_share_front" -> TableVotesShareFront(dd, sel_front)
      [] op = "table_lbtype_performance_front" ->
            TableLbtypePerformanceFront(dd, sel_front, TRUE)
      [] op = "table_opponent_front" -> TableOpponentFront(dd, sel_front)
      [] op = "_build_strength_chart_front" -> StrengthSummary(dd, sel_front)
      [] op = "_build_vote_bin_chart_front" -> VoteBinAgg(dd)

\* the scope after an operation assigned columns on a working frame that is
\* the scope itself, not a copy
ScopeAfterWriteInPlace(scope_df, written) == written

\* the scope after an operation assigned columns on its working frame: the
\* working frame is a copy, the scope is as it was
ScopeAfterWrite(scope_df, written) == scope_df

\* the rows a scope can hold: ward-tier candidates of a ward
ViewRows ==
    { [WardCode |-> "W1", TierNorm |-> "Ward", Front |-> f, Rank |-> r,
       LBType |-> g, Votes |-> 1, Lead |-> Num(75),
       VoteBin |-> IF g = "Grama" THEN "<100" ELSE "200+"] :
         f \in {"UDF", "LDF"}, r \in {Num(1), Num(2)}, g \in {"Grama", "Township"} }

\* a view that has not started
IdleView == [pc |-> "idle", op |-> "none", sel_front |-> "none", d |-> <<>>, out |-> <<>>]

InitViews ==
    /\ d = <<>>
    /\ leader = Unset
    /\ lead = NA
    /\ strength = "unset"
    /\ df = <<>>
    /\ table = Unset

\* one more row of the loaded data
LoadViewRow ==
    /\ table = Unset
    /\ Len(df) < MaxViewRows
    /\ \E row \in ViewRows : df' = Append(df, row)
    /\ UNCHANGED <<d, leader, lead, strength, table>>

\* scoped = df.copy(): the scope both views are computed over
OpenScope ==
    /\ table = Unset
    /\ table' = [fn |-> "views", loaded |-> df, a |-> IdleView, b |-> IdleView]
    /\ UNCHANGED <<d, leader, lead, strength, df>>

\* a view calls an operation, which takes its working frame
ViewStart ==
    /\ table.fn = "views"
    /\ \E v \in {"a", "b"}, op \in ViewOps, sel_front \in {"UDF", "LDF"} :
          /\ table[v].pc = "idle"
          /\ table' = [table EXCEPT ![v] =
                          [pc |-> "copied", op |-> op, sel_front |-> sel_front,
                           d |-> WorkingFrame(op, df, sel_front), out |-> <<>>]]
    /\ UNCHANGED <<d, leader, lead, strength, df>>

\* the operation assigns its columns on the working frame
ViewWrite ==
    /\ table.fn = "views"
    /\ \E v \in {"a", "b"} :
          /\ table[v].pc = "copied"
          /\ table[v].op \in WritingOps
          /\ LET written == WriteColumns(table[v].op, table[v].d)
             IN /\ table' = [table EXCEPT ![v].pc = "written", ![v].d = written]
                /\ df' = ScopeAfterWrite(df, written)
    /\ UNCHANGED <<d, leader, lead, strength>>

\* the operation returns
ViewFinish ==
    /\ table.fn = "views"
    /\ \E v \in {"a", "b"} :
          /\ \/ table[v].pc = "written"
             \/ table[v].pc = "copied" /\ table[v].op \notin WritingOps
          /\ table' = [table EXCEPT ![v].pc = "done",
                          ![v].out = ViewOutput(table[v].op, table[v].d,
                                                table[v].sel_front)]
    /\ UNCHANGED <<d, leader, lead, strength, df>>

NextViews ==
    \/ LoadViewRow
    \/ OpenScope
    \/ ViewStart
    \/ ViewWrite
    \/ ViewFinish

SpecViews == InitViews /\ [][NextViews]_vars

(***************************************************************************)
(* Votes by front in the local bodies of an assembly, and the summary      *)
(* rows Total, Percentage and Rank (Assembly page).                        *)
(***************************************************************************)
\* df_votes: the ward-tier rows of the three local-body types
DfVotes(df_da) ==
    LET Keep(row) == row.Tier = "Ward"
                     /\ row.LBType \in {"Grama", "Municipality", "Corporation"}
    IN SelectSeq(df_da, Keep)

\* lb_rows: the pivot local body x front of the summed votes, a front without
\* rows filled with 0, sorted by LBType and LBName; vals is the dict of the
\* front columns of the row
LbRows(df_votes) ==
    LET bodies == { <<df_votes[i].LBName, df_votes[i].LBType>> : i \in 1..Len(df_votes) }
        Votes(b, fr) ==
            SumOver([i \in 1..Len(df_votes) |-> df_votes[i].Votes],
                    { i \in 1..Len(df_votes) :
                        /\ df_votes[i].LBName = b[1]
                        /\ df_votes[i].LBType = b[2]
                        /\ df_votes[i].Front = fr })
        RowOf(b) == [LBName |-> b[1], LBType |-> b[2],
                     vals |-> [k \in 1..Len(FRONT_ORDER) |->
                                 <<FRONT_ORDER[k], Votes(b, FRONT_ORDER[k])>>]]
        RECURSIVE AsSeq(_)
        AsSeq(S) == IF S = {} THEN <<>>
                    ELSE LET b == CHOOSE x \in S : TRUE
                         IN <<RowOf(b)>> \o AsSeq(S \ {b})
        rows == AsSeq(bodies)
        by == [i \in 1..Len(rows) |->
                 <<StrRank(rows[i].LBType), StrRank(rows[i].LBName)>>]
    IN SortByKey(rows, by)

\* front_totals
FrontTotals(lb_rows) ==
    [k \in 1..Len(FRONT_ORDER) |->
        <<FRONT_ORDER[k],
          SeqSum([i \in 1..Len(lb_rows) |-> DictGet(lb_rows[i].vals, FRONT_ORDER[k], 0)])>>]

\* grand_total
GrandTotal(front_totals) ==
    SeqSum([k \in 1..Len(front_totals) |-> front_totals[k][2]])

\* front_percent: total / grand_total * 100 when grand_total > 0, else 0.0.
\* Every quotient has the same positive denominator, so a percentage is held
\* as its numerator total * 100: order, equality and sign are the quotient's
FrontPercent(front_totals) ==
    LET grand_total == GrandTotal(front_totals)
    IN [k \in 1..Len(front_totals) |->
          <<front_totals[k][1],
            IF grand_total > 0 THEN front_totals[k][2] * 100 ELSE 0>>]

\* front_rank: Series.rank(ascending=False, method="min")
FrontRank(front_totals) ==
    [k \in 1..Len(front_totals) |->
        <<front_totals[k][1],
          1 + Cardinality({ j \in 1..Len(front_totals) :
                              front_totals[j][2] > front_totals[k][2] })>>]

\* the second table of the page: the leader of each local body row and of
\* the three summary rows
AssemblyVotesTable(df_da) ==
    LET df_votes == DfVotes(df_da)
        lb_rows == LbRows(df_votes)
        front_totals == FrontTotals(lb_rows)
        front_percent == FrontPercent(front_totals)
        front_rank == FrontRank(front_totals)
    IN IF df_votes = <<>> THEN [fn |-> "st.info"]
       ELSE [fn |-> "votes_by_front",
             lb_rows |-> lb_rows,
             lb_leaders |-> [i \in 1..Len(lb_rows) |-> LbLeader(lb_rows[i].vals)],
             front_totals |-> front_totals,
             front_percent |-> front_percent,
             front_rank |-> front_rank,
             leader_total |-> WinnerFromDict(front_totals, FALSE),
             leader_pct |-> WinnerFromDict(front_percent, FALSE),
             leader_rank |-> WinnerFromDict(front_rank, TRUE)]

\* the rows of an assembly after the page's hygiene: ward-tier candidates of
\* two grama panchayats with their votes, and a block-tier candidate
AssemblyRows ==
    [LBName : {"LB1", "LB2"}, LBType : {"Grama"}, Tier : {"Ward"},
     Front : {"UDF", "LDF", "NDA"}, Votes : {0 - 1, 0, 1}]
    \cup [LBName : {"LB1"}, LBType : {"Block"}, Tier : {"Block"},
          Front : {"UDF"}, Votes : {1}]

InitAssembly ==
    /\ d = <<>>
    /\ leader = Unset
    /\ lead = NA
    /\ strength = "unset"
    /\ df = <<>>
    /\ table = Unset

\* one more row of the selected assembly
LoadAssemblyRow ==
    /\ table = Unset
    /\ Len(df) < MaxAssemblyRows
    /\ \E row \in AssemblyRows : df' = Append(df, row)
    /\ UNCHANGED <<d, leader, lead, strength, table>>

\* the page renders "Votes by Front in Local Bodies"
CallAssemblyVotesTable ==
    /\ table = Unset
    /\ table' = AssemblyVotesTable(df)
    /\ UNCHANGED <<d, leader, lead, strength, df>>

NextAssembly ==
    \/ LoadAssemblyRow
    \/ CallAssemblyVotesTable

SpecAssembly == InitAssembly /\ [][NextAssembly]_vars

(***************************************************************************)
(* Headline of the Ward page: winner and lead of the selected ward.        *)
(***************************************************************************)
\* np.where(total_votes > 0, votes / total_votes * 100, 0.0)
WardPercent(votes, total_votes) ==
    IF total_votes > 0 THEN <<votes * 100, total_votes>> ELSE <<0, 1>>

\* ward_votes before the sort: a row per (Candidate, Party, Front) with the
\* summed votes and the percentage
WardVotes(df_w) ==
    LET groups == { [Candidate |-> df_w[i].Candidate, Party |-> df_w[i].Party,
                     Front |-> df_w[i].Front] : i \in 1..Len(df_w) }
        Votes(g) ==
            SumOver([i \in 1..Len(df_w) |-> df_w[i].Votes],
                    { i \in 1..Len(df_w) :
                        /\ df_w[i].Candidate = g.Candidate
                        /\ df_w[i].Party = g.Party
                        /\ df_w[i].Front = g.Front })
        total_votes == SeqSum([i \in 1..Len(df_w) |-> df_w[i].Votes])
        RowOf(g) == [Candidate |-> g.Candidate, Party |-> g.Party, Front |-> g.Front,
                     Votes |-> Votes(g), Pct |-> WardPercent(Votes(g), total_votes)]
        RECURSIVE AsSeq(_)
        AsSeq(S) == IF S = {} THEN <<>>
                    ELSE LET g == CHOOSE x \in S : TRUE
                         IN <<RowOf(g)>> \o AsSeq(S \ {g})
    IN AsSeq(groups)

\* the headlines the page can show for the rows of the selected ward:
\* ward_votes sorted by Votes descending, its first row the winner, and the
\* lead over the second row
WardHeadlines(df_w) ==
    LET unsorted == WardVotes(df_w)
        by == [i \in 1..Len(unsorted) |-> <<0 - unsorted[i].Votes>>]
    IN { [fn |-> "ward_headline",
          ward_votes |-> ward_votes,
          winner |-> ward_votes[1],
          second_votes |-> IF Len(ward_votes) > 1 THEN ward_votes[2].Votes ELSE 0,
          lead |-> ward_votes[1].Votes
                      - (IF Len(ward_votes) > 1 THEN ward_votes[2].Votes ELSE 0)] :
         ward_votes \in SortsByKey(unsorted, by) }

\* the candidates of a ward
WardCandidates ==
    { [Candidate |-> "A", Party |-> "INC", Front |-> "UDF"],
      [Candidate |-> "B", Party |-> "CPI(M)", Front |-> "LDF"],
      [Candidate |-> "C", Party |-> "IND", Front |-> "OTH"] }

\* the rows the selected ward can hold after the page's hygiene, which keeps
\* a negative Votes cell
WardRows ==
    { [Candidate |-> c.Candidate, Party |-> c.Party, Front |-> c.Front, Votes |-> v] :
        c \in WardCandidates, v \in {0 - 1, 0, 1, 2} }

InitWard ==
    /\ d = <<>>
    /\ leader = Unset
    /\ lead = NA
    /\ strength = "unset"
    /\ df = <<>>
    /\ table = Unset

\* one more row of the selected ward
LoadWardRow ==
    /\ table = Unset
    /\ Len(df) < MaxWardRows
    /\ \E row \in WardRows : df' = Append(df, row)
    /\ UNCHANGED <<d, leader, lead, strength, table>>

\* the page renders the headline of the selected ward (it stops before,
\* when the ward has no rows)
CallWardHeadline ==
    /\ table = Unset
    /\ df # <<>>
    /\ \E headline \in WardHeadlines(df) : table' = headline
    /\ UNCHANGED <<d, leader, lead, strength, df>>

NextWard ==
    \/ LoadWardRow
    \/ CallWardHeadline

SpecWard == InitWard /\ [][NextWard]_vars

(***************************************************************************)
(*                              PROPERTIES                                 *)
(***************************************************************************)

(***************************************************************************)
(* Leader resolver: what the specification asks of it, stated over the     *)
(* map as a set of keys and a value per key.                               *)
(***************************************************************************)
\* the keys of dict whose value is x
KeysAt(dict, x) == { k \in DictKeys(dict) : DictGet(dict, k, 0) = x }

\* NONE for an empty map or a maximum of 0, the category when one category
\* attains the maximum, TIE when two or more do
ExpectedLeaderHigh(dict) ==
    IF DictKeys(dict) = {} THEN "NONE"
    ELSE LET top == KeysAt(dict, SetMax(DictValues(dict)))
         IN IF SetMax(DictValues(dict)) = 0 THEN "NONE"
            ELSE IF Cardinality(top) = 1 THEN CHOOSE k \in top : TRUE
            ELSE "TIE"

\* NONE for an empty map only, the category when one category attains the
\* minimum, TIE when two or more do
ExpectedLeaderLow(dict) ==
    IF DictKeys(dict) = {} THEN "NONE"
    ELSE LET bottom == KeysAt(dict, SetMin(DictValues(dict)))
         IN IF Cardinality(bottom) = 1 THEN CHOOSE k \in bottom : TRUE
            ELSE "TIE"

\* C1: with prefer_low = False, _winner_from_dict over any map of
\* non-negative values, and _lb_leader and both _leader_row over the four
\* fronts, return NONE for an empty map or a maximum of 0, the category when
\* exactly one category attains a non-zero maximum, and TIE when two or more do.
C1_LeaderHigh ==
    /\ (leader.fn = "_winner_from_dict" /\ ~leader.prefer_low)
          => leader.res = ExpectedLeaderHigh(d)
    /\ leader.fn \in {"_lb_leader", "_leader_row@District", "_leader_row@Assembly"}
          => leader.res = ExpectedLeaderHigh(FrontVals(d))

\* {UDF:4, LDF:4, NDA:0, OTH:0} has been resolved, to TIE
C1_Witness ==
    /\ d = <<<<"UDF", 4>>, <<"LDF", 4>>, <<"NDA", 0>>, <<"OTH", 0>>>>
    /\ leader.fn = "_winner_from_dict"
    /\ ~leader.prefer_low
    /\ leader.res = "TIE"

\* C8: with prefer_low = True, _winner_from_dict returns NONE only for an
\* empty map; for a non-empty map it returns the category when exactly one
\* category attains the minimum (a minimum of 0 included) and TIE otherwise.
C8_LeaderLow ==
    (leader.fn = "_winner_from_dict" /\ leader.prefer_low)
        => /\ leader.res = ExpectedLeaderLow(d)
           /\ (leader.res = "NONE") <=> (d = <<>>)

\* a map whose single minimum is 0 has been resolved to that category
C8_Witness ==
    /\ d = <<<<"UDF", 0>>, <<"LDF", 3>>>>
    /\ leader.fn = "_winner_from_dict"
    /\ leader.prefer_low
    /\ leader.res = "UDF"

(***************************************************************************)
(* Strength classifier: the specification's table over integer margins.    *)
(***************************************************************************)
ExpectedBucket(m) ==
    CASE m <= -500 -> "-500 or less"
      [] m \in -499..-200 -> "-200 to -499"
      [] m \in -199..-100 -> "-100 to -199"
      [] m \in -99..-50 -> "-50 to -99"
      [] m \in -49..-1 -> "-1 to -49"
      [] m = 0 -> "0"
      [] m \in 1..49 -> "1-49"
      [] m \in 50..99 -> "50-99"
      [] m \in 100..199 -> "100-199"
      [] m \in 200..499 -> "200-499"
      [] m >= 500 -> "500+"

\* C2: for every integer margin _lead_to_strength returns one of the 11
\* bucket labels, never None, and the label is the one the specification's
\* table assigns to the margin.
C2_StrengthTable ==
    (strength # "unset" /\ ~IsNa(lead))
        => /\ strength \in Range(STRENGTH_ORDER)
           /\ strength # "None"
           /\ strength = ExpectedBucket(lead.v)

\* the margin -200 has been classified, into "-200 to -499"
C2_Witness ==
    /\ lead = Num(-200)
    /\ strength = "-200 to -499"

(***************************************************************************)
(* Opponent breakdown: the wards of the loaded data and their winner and   *)
(* runner-up categories, read off the ward-tier rows.                      *)
(***************************************************************************)
OppFronts == {"UDF", "LDF"}
OppWards == {"W1", "W2"}

\* the ward-tier rows of ward w with rank n, as a set of row numbers
WardRanked(w, n) ==
    { i \in 1..Len(df) :
        df[i].TierNorm = "Ward" /\ df[i].WardCode = w /\ RankIs(df[i], n) }

WinnerCats(w) == { df[i].Front : i \in WardRanked(w, 1) }
RunnerCats(w) == { df[i].Front : i \in WardRanked(w, 2) }

\* every ward has at most one rank-1 and at most one rank-2 record
UniqueRanks ==
    \A w \in OppWards :
        Cardinality(WardRanked(w, 1)) <= 1 /\ Cardinality(WardRanked(w, 2)) <= 1

\* the cell of the table for opposing category g (0 when g has no row)
CountWhenFocalWon(rows, g) ==
    LET Hit(row) == row.Front = g
        hit == SelectSeq(rows, Hit)
    IN IF hit = <<>> THEN 0 ELSE hit[1].RunnerUp

CountWhenFocalRunnerUp(rows, g) ==
    LET Hit(row) == row.Front = g
        hit == SelectSeq(rows, Hit)
    IN IF hit = <<>> THEN 0 ELSE hit[1].Winners

SumWhenFocalWon(rows) == SeqSum([i \in 1..Len(rows) |-> rows[i].RunnerUp])
SumWhenFocalRunnerUp(rows) == SeqSum([i \in 1..Len(rows) |-> rows[i].Winners])

OppDone == table.fn = "table_opponent_front"

\* C3: when every ward has at most one rank-1 and at most one rank-2 record,
\* the table gives for each opposing category G the number of wards won by
\* the focal category with G second, and the number of wards won by G with
\* the focal category second.
C3_OpponentCounts ==
    (OppDone /\ UniqueRanks) =>
        \A g \in OppFronts :
            /\ CountWhenFocalWon(table.rows, g) =
                  Cardinality({ w \in OppWards :
                      table.sel_front \in WinnerCats(w) /\ g \in RunnerCats(w) })
            /\ CountWhenFocalRunnerUp(table.rows, g) =
                  Cardinality({ w \in OppWards :
                      table.sel_front \in RunnerCats(w) /\ g \in WinnerCats(w) })

\* W1 (winner UDF, runner-up LDF) and W2 (winner LDF, runner-up UDF) with
\* focal UDF: one row, LDF, holding 1 and 1
C3_Witness ==
    /\ OppDone
    /\ table.sel_front = "UDF"
    /\ df = << [WardCode |-> "W1", TierNorm |-> "Ward", Front |-> "UDF", Rank |-> Num(1)],
               [WardCode |-> "W1", TierNorm |-> "Ward", Front |-> "LDF", Rank |-> Num(2)],
               [WardCode |-> "W2", TierNorm |-> "Ward", Front |-> "LDF", Rank |-> Num(1)],
               [WardCode |-> "W2", TierNorm |-> "Ward", Front |-> "UDF", Rank |-> Num(2)] >>
    /\ table.rows = << [Front |-> "LDF", RunnerUp |-> 1, Winners |-> 1] >>

\* C4: every ward the focal category won that has no rank-2 record is counted
\* under "UNKNOWN" in countWhenFocalWon, and countWhenFocalWon summed over
\* the opposing categories is the number of wards the focal category won
\* (stated for record sets with at most one rank-1 and one rank-2 record per
\* ward).
C4_UnknownRunnerCounted ==
    (OppDone /\ UniqueRanks) =>
        LET won == { w \in OppWards : table.sel_front \in WinnerCats(w) }
        IN /\ CountWhenFocalWon(table.rows, "UNKNOWN") =
                 Cardinality({ w \in won : WardRanked(w, 2) = {} })
           /\ SumWhenFocalWon(table.rows) = Cardinality(won)

\* the rows of df other than the ward-tier rows of ward w
WithoutWard(w) ==
    LET Keep(row) == ~(row.TierNorm = "Ward" /\ row.WardCode = w)
    IN SelectSeq(df, Keep)

\* C9: a ward with more than one rank-1 (or rank-2) record still adds at most
\* 1 to countWhenFocalWon summed over the opposing categories, and at most 1
\* to countWhenFocalRunnerUp summed over them.
C9_WardCountedOnce ==
    OppDone =>
        \A w \in OppWards :
            LET rest == TableOpponentFront(WithoutWard(w), table.sel_front)
            IN /\ SumWhenFocalWon(table.rows) - SumWhenFocalWon(rest) <= 1
               /\ SumWhenFocalRunnerUp(table.rows) - SumWhenFocalRunnerUp(rest) <= 1

(***************************************************************************)
(* Rank tables: the records behind each row, read off the loaded rows.     *)
(***************************************************************************)
RankTableDone ==
    table.fn \in {"table_lbtype_performance_front", "rank_xt", "ct"}

\* the rows of df that belong to the row `label` of the table in `table`
\* and carry a rank, as a set of row numbers
RankedRecordsOf(label) ==
    { i \in 1..Len(df) :
        /\ ~IsNa(df[i].Rank)
        /\ df[i].Front = table.sel_front
        /\ CASE table.fn = "table_lbtype_performance_front" ->
                  /\ df[i].LBType = label
                  /\ \/ df[i].TierNorm = "Ward"
                     \/ /\ table.include_block_district
                        /\ df[i].TierNorm \in {"Block", "District"}
             [] table.fn = "rank_xt" ->
                  df[i].TierNorm = "Ward" /\ df[i].Party = label
             [] table.fn = "ct" ->
                  df[i].TierNorm = "Ward" /\ (label = "Total" \/ df[i].LBName = label) }

\* C5: in every row of every rank table, Won plus the other rank columns is
\* Contested, which is the number of records of the row's group that carry a
\* rank; the strike rate lies in [0, 100] and is 0 when Contested is 0 (also
\* when the table has no Won column).
C5_RankRowSums ==
    RankTableDone =>
        \A i \in 1..Len(table.rows) :
            LET row == table.rows[i]
                won == IF 1 \in DOMAIN row.rank THEN row.rank[1] ELSE 0
                others == SumOver(row.rank, DOMAIN row.rank \ {1})
            IN /\ won + others = row.Contested
               /\ row.Contested = Cardinality(RankedRecordsOf(row.label))
               /\ row.Strike[2] > 0
               /\ 0 <= row.Strike[1]
               /\ row.Strike[1] <= 100 * row.Strike[2]
               /\ (row.Contested = 0 => row.Strike[1] = 0)
               /\ (row.Contested > 0 =>
                     row.Strike[1] * row.Contested = won * 100 * row.Strike[2])

\* a table with a Won column in which one group won 1 of the 2 seats it
\* contested and another group contested none
C5_Witness ==
    /\ table.fn = "table_lbtype_performance_front"
    /\ Len(table.rows) >= 2
    /\ 1 \in DOMAIN table.rows[1].rank
    /\ table.rows[1].rank[1] = 1
    /\ table.rows[1].Contested = 2
    /\ table.rows[1].Strike = <<100, 2>>
    /\ table.rows[2].Contested = 0
    /\ table.rows[2].Strike = <<0, 1>>

(***************************************************************************)
(* Seat crosstab.                                                          *)
(***************************************************************************)
SeatDone == table.fn \in {"front_table", "table_front"}

\* the rows and columns of the table that are categories, not totals
CategoryRows(xt) == LET Cat(g) == g # "Total" IN SelectSeq(xt.index, Cat)
CategoryColumns(xt) == LET Cat(c) == c # "Total" IN SelectSeq(xt.columns, Cat)

\* C6: the Total column holds, for each row, the sum of the row's category
\* columns; the Total row of the Overall table comes after all category rows
\* and holds, for each column (Total included), the sum of the column over
\* the category rows.
C6_CrosstabTotals ==
    SeatDone =>
        LET xt == table.xt
            rows == CategoryRows(xt)
            cols == CategoryColumns(xt)
        IN /\ xt.columns = Append(cols, "Total")
           /\ \A g \in Range(xt.index) :
                 xt.cell[g]["Total"] = SeqSum([i \in 1..Len(cols) |-> xt.cell[g][cols[i]]])
           /\ table.fn = "front_table" =>
                 /\ xt.index = Append(rows, "Total")
                 /\ \A c \in Range(xt.columns) :
                       xt.cell["Total"][c] =
                          SeqSum([i \in 1..Len(rows) |-> xt.cell[rows[i]][c]])

\* an Overall table over two winners of different fronts and types
C6_Witness ==
    /\ table.fn = "front_table"
    /\ table.xt.cell["UDF"]["Grama"] = 1
    /\ table.xt.cell["LDF"]["Block"] = 1
    /\ table.xt.cell["UDF"]["Total"] = 1
    /\ table.xt.cell["Total"]["Block"] = 1
    /\ table.xt.cell["Total"]["Total"] = 2

\* the winners in the scope of the table in `table` with front f and type t
SeatWinnersOf(f, t) ==
    { i \in 1..Len(df) :
        /\ RankIs(df[i], 1)
        /\ df[i].Front = f
        /\ df[i].LBType = t
        /\ table.sel_district \in {"All Kerala", df[i].District} }

\* C7: whatever the records (none at all, or none of some category), the
\* seat crosstab has one row per label of FRONT_ORDER and one column per
\* label of LBTYPE_ORDER, in the order of those lists, and holds 0 wherever
\* no record matches the row and the column.
C7_CrosstabAxes ==
    SeatDone =>
        LET xt == table.xt
        IN /\ CategoryRows(xt) = FRONT_ORDER
           /\ CategoryColumns(xt) = LBTYPE_ORDER
           /\ \A f \in Range(FRONT_ORDER), t \in Range(LBTYPE_ORDER) :
                 SeatWinnersOf(f, t) = {} => xt.cell[f][t] = 0

\* winners of LDF then UDF only, in Block then Grama only: the table still
\* has every front and type, in axis order
C7_Witness ==
    /\ table.fn = "table_front"
    /\ table.sel_district = "D1"
    /\ { df[i].Front : i \in 1..Len(df) } = {"LDF", "UDF"}
    /\ Len(df) >= 2
    /\ df[1].Front = "LDF" /\ df[1].LBType = "Block" /\ RankIs(df[1], 1)
    /\ df[2].Front = "UDF" /\ df[2].LBType = "Grama" /\ RankIs(df[2], 1)
    /\ table.xt.index = FRONT_ORDER
    /\ table.xt.cell["NDA"]["Corporation"] = 0
    /\ table.xt.cell["LDF"]["Block"] = 1

(***************************************************************************)
(* Normalisation.                                                          *)
(***************************************************************************)
CsvDone == table.fn = "_read_csv_robust"

\* C10: after normalisation every record has VotePercentage =
\* Votes / WardTotalVotes x 100, and exactly 0 (not NaN, not infinite) when
\* the total votes of its ward is 0.
C10_VotePercentage ==
    CsvDone =>
        \A i \in 1..Len(df) :
           LET row == df[i]
               pct == row.VotePercentage
           IN /\ pct.kind = "finite"
              /\ row.WardTotalVotes # 0 =>
                    pct.n * row.WardTotalVotes = row.Votes * 100 * pct.dd
              /\ row.WardTotalVotes = 0 => pct.n = 0

\* C10, the part the code meets: the percentage of a record whose ward has
\* a non-zero total is Votes / WardTotalVotes x 100
C10_NonZeroTotal ==
    CsvDone =>
        \A i \in 1..Len(df) :
           df[i].WardTotalVotes # 0 =>
              /\ df[i].VotePercentage.kind = "finite"
              /\ df[i].VotePercentage.n * df[i].WardTotalVotes
                    = df[i].Votes * 100 * df[i].VotePercentage.dd

\* C11: after normalisation the Votes of every record is a non-negative
\* integer: a cell that is not a number becomes 0 and no cell, a negative
\* number included, leaves Votes below 0.
C11_VotesNonNegative ==
    CsvDone =>
        \A i \in 1..Len(df) :
           /\ df[i].Votes \in Nat
           /\ IsNa(table.raw[i].Votes) => df[i].Votes = 0

\* C11, the part the code meets: a cell that is not a number becomes 0 and
\* a number is kept as it is
C11_VotesCoerced ==
    CsvDone =>
        \A i \in 1..Len(df) :
           df[i].Votes = IF IsNa(table.raw[i].Votes) THEN 0 ELSE table.raw[i].Votes.v

\* whether the file read had a WardTotalVotes column
TotalSupplied == "WardTotalVotes" \in DOMAIN table.raw[1]

\* C20: when WardTotalVotes is not supplied, after normalisation the
\* WardTotalVotes of every record is the sum of the coerced Votes of all the
\* records that share its WardCode; when it is supplied it is left as it was.
C20_UnitTotalVotes ==
    CsvDone =>
        \A i \in 1..Len(df) :
           IF TotalSupplied
           THEN df[i].WardTotalVotes = table.raw[i].WardTotalVotes
           ELSE df[i].WardTotalVotes =
                   SumOver([j \in 1..Len(df) |-> df[j].Votes],
                           { j \in 1..Len(df) : df[j].WardCode = df[i].WardCode })

\* C20, what the code does: the total is summed over the records whose
\* WardCode was the same in the file, before the ward codes are stripped
C20_TotalsByRawKey ==
    CsvDone =>
        \A i \in 1..Len(df) :
           IF TotalSupplied
           THEN df[i].WardTotalVotes = table.raw[i].WardTotalVotes
           ELSE df[i].WardTotalVotes =
                   SumOver([j \in 1..Len(df) |-> df[j].Votes],
                           { j \in 1..Len(df) :
                               table.raw[j].WardCode = table.raw[i].WardCode })

(***************************************************************************)
(* Rank-absent records.                                                    *)
(***************************************************************************)
\* the rows of df behind the row `label` of the summary in `table`
SummaryRecordsOf(label) ==
    { i \in 1..Len(df) :
        CASE table.fn = "lb_summary" ->
                /\ df[i].LBName = label
                /\ df[i].TierNorm = "Ward"
                /\ df[i].Front = table.sel_front
          [] table.fn = "age_summary" ->
                df[i].Party = table.sel_party /\ AgeGroup40(df[i]) = label }

\* C12: a record without a rank adds to neither Won, nor a rank column, nor
\* Contested: in the rank tables, in the Local Body summary and in the age
\* table a group's Contested is at most the number of its records that carry
\* a rank, and its Won the number of its rank-1 records.
C12_RankAbsentExcluded ==
    /\ RankTableDone =>
          \A i \in 1..Len(table.rows) :
             LET row == table.rows[i]
             IN /\ row.Contested = Cardinality(RankedRecordsOf(row.label))
                /\ SumOver(row.rank, DOMAIN row.rank) = row.Contested
    /\ table.fn \in {"lb_summary", "age_summary"} =>
          \A i \in 1..Len(table.rows) :
             LET row == table.rows[i]
                 recs == SummaryRecordsOf(row.label)
             IN /\ row.Contested <= Cardinality({ r \in recs : ~IsNa(df[r].Rank) })
                /\ row.Won = Cardinality({ r \in recs : RankIs(df[r], 1) })

\* C12 for the age table alone
C12_AgeSummary ==
    table.fn = "age_summary" =>
        \A i \in 1..Len(table.rows) :
           table.rows[i].Contested <=
              Cardinality({ r \in SummaryRecordsOf(table.rows[i].label) : ~IsNa(df[r].Rank) })

\* C12, the part the code meets: no rank table counts a record without a
\* rank, and Won never counts one in any table
C12_RankTablesExcludeAbsent ==
    /\ RankTableDone =>
          \A i \in 1..Len(table.rows) :
             table.rows[i].Contested = Cardinality(RankedRecordsOf(table.rows[i].label))
    /\ table.fn \in {"lb_summary", "age_summary"} =>
          \A i \in 1..Len(table.rows) :
             table.rows[i].Won =
                Cardinality({ r \in SummaryRecordsOf(table.rows[i].label) : RankIs(df[r], 1) })

(***************************************************************************)
(* Order independence of the leader resolver.                              *)
(***************************************************************************)
\* the permutations of 1..n, for every length n of a dict over the fronts
IndexOrders ==
    [n \in 0..Len(FRONT_ORDER) |->
       { p \in [1..n -> 1..n] : \A i, j \in 1..n : p[i] = p[j] => i = j }]

\* the entries of dict listed in every order
Reorderings(dict) ==
    { [i \in 1..Len(dict) |-> dict[p[i]]] : p \in IndexOrders[Len(dict)] }

\* C19: the result of _winner_from_dict depends only on the mapping: listing
\* the entries of the dict in any other order gives the same result, with
\* prefer_low false and true.
C19_OrderIndependent ==
    leader.fn = "_winner_from_dict" =>
        \A other \in Reorderings(d) :
           WinnerFromDict(other, leader.prefer_low) = leader.res

\* a map listed LDF, UDF, NDA, its maximum shared by the last two, resolved
C19_Witness ==
    /\ leader.fn = "_winner_from_dict"
    /\ ~leader.prefer_low
    /\ d = <<<<"LDF", 2>>, <<"UDF", 4>>, <<"NDA", 4>>>>
    /\ leader.res = "TIE"

(***************************************************************************)
(* Views over an empty scope.                                              *)
(***************************************************************************)
LeadDone == table.fn = "lead_view"

\* C13: when a scope holds no matching record the view completes without
\* raising: the District view completes when the district has no ward-tier
\* winner in a Grama, Municipality or Corporation body, and when no local
\* body has a single leading front.
C13_EmptyScopeCompletes ==
    LeadDone => table.raised = "none"

\* C13, what the code does: the District view completes exactly when some
\* local body has a single leading front
C13_CompletesIffLeader ==
    LeadDone =>
        (table.raised = "none" <=>
            \E i \in 1..Len(table.lb_summary) :
               table.lb_summary[i].Leader \in Range(FRONT_ORDER))

(***************************************************************************)
(* Column validation.                                                      *)
(***************************************************************************)
PageDone == table.fn = "page"

\* the columns the page in `table` reads
ColumnsRead(page) ==
    RequiredColumns(page) \cup Range(UnguardedReads(page))
       \cup (IF page = "Assembly" THEN {"Assembly"} ELSE {})

\* C14: whenever a column the view reads is absent, the view stops before
\* building a table with an error that names every absent column; it does
\* not fail with an unhandled exception.
C14_ColumnsValidated ==
    PageDone =>
        LET absent == ColumnsRead(table.page) \ DOMAIN df[1]
        IN /\ table.outcome # "KeyError"
           /\ absent # {} => table.outcome = "st.error" /\ table.named = absent
           /\ absent = {} => table.outcome = "rendered"

\* C14, what the pages with a check do: when a column of their required
\* set is absent they stop with an error naming every absent required column
C14_RequiredNamed ==
    PageDone /\ HasColumnCheck(table.page) =>
        LET missing == RequiredColumns(table.page) \ DOMAIN df[1]
        IN missing # {} => table.outcome = "st.error" /\ missing \subseteq table.named

(***************************************************************************)
(* Row order of the rank tables.                                           *)
(***************************************************************************)
WonOfRow(row) == IF 1 \in DOMAIN row.rank THEN row.rank[1] ELSE 0

\* row a stands before row b: more Won, else more Contested, else the
\* smaller label
RowBefore(a, b) ==
    \/ WonOfRow(a) > WonOfRow(b)
    \/ WonOfRow(a) = WonOfRow(b) /\ a.Contested > b.Contested
    \/ /\ WonOfRow(a) = WonOfRow(b)
       /\ a.Contested = b.Contested
       /\ StrRank(a.label) < StrRank(b.label)

\* C15 as stated: the rows of every rank table are ordered by Won
\* descending, then Contested descending, then group label ascending.
C15_RankRowOrder ==
    table.fn \in {"rank_xt", "perf_table", "table_lbtype_performance_front"} =>
        \A i, j \in 1..Len(table.rows) :
           i < j => RowBefore(table.rows[i], table.rows[j])

\* C15 as amended: the rows of the Party x Rank tables of the District and
\* Local Body pages are ordered by Won descending, then Contested
\* descending, and rows equal in both by party label ascending when the
\* table has a Won column; the rows of the LBType table of the Front page
\* stand in the order of the LBType list.
C15_RankRowOrderAmended ==
    /\ table.fn \in {"rank_xt", "perf_table"} =>
          \A i, j \in 1..Len(table.rows) :
             i < j =>
                LET a == table.rows[i]
                    b == table.rows[j]
                IN \/ RowBefore(a, b)
                   \/ /\ 1 \notin DOMAIN a.rank
                      /\ a.Contested = b.Contested
    /\ table.fn = "table_lbtype_performance_front" /\ table.rows # <<>> =>
          [i \in 1..Len(table.rows) |-> table.rows[i].label]
             = IF table.include_block_district
               THEN <<"Grama", "Municipality", "Corporation", "Block", "District">>
               ELSE <<"Grama", "Municipality", "Corporation">>

\* a Party x Rank table whose two parties won one seat each, the one that
\* contested more first although its label is the larger
C15_Witness ==
    /\ table.fn = "rank_xt"
    /\ Len(table.rows) = 2
    /\ table.rows[1].label = "IUML" /\ table.rows[2].label = "INC"
    /\ WonOfRow(table.rows[1]) = 1 /\ WonOfRow(table.rows[2]) = 1
    /\ table.rows[1].Contested = 2 /\ table.rows[2].Contested = 1

(***************************************************************************)
(* Row order of the opponent breakdown.                                    *)
(***************************************************************************)
\* C16: the rows of the opponent breakdown are ordered by the sum of their
\* two counts, descending, rows of equal sum by opposing category label
\* ascending; no opposing category has two rows.
C16_OpponentOrder ==
    OppDone =>
        /\ \A i, j \in 1..Len(table.rows) :
              i < j =>
                 LET a == table.rows[i]
                     b == table.rows[j]
                 IN \/ a.RunnerUp + a.Winners > b.RunnerUp + b.Winners
                    \/ /\ a.RunnerUp + a.Winners = b.RunnerUp + b.Winners
                       /\ StrRank(a.Front) < StrRank(b.Front)
        /\ \A i, j \in 1..Len(table.rows) :
              table.rows[i].Front = table.rows[j].Front => i = j

\* focal UDF against UDF (sum 2) and LDF (sum 1): the larger sum first
\* although its label is the larger
C16_Witness ==
    /\ OppDone
    /\ table.sel_front = "UDF"
    /\ Len(table.rows) = 2
    /\ table.rows[1].Front = "UDF"
    /\ table.rows[1].RunnerUp + table.rows[1].Winners = 2
    /\ table.rows[2].Front = "LDF"
    /\ table.rows[2].RunnerUp + table.rows[2].Winners = 1

(***************************************************************************)
(* Rank columns.                                                           *)
(***************************************************************************)
AnyRankTableDone ==
    table.fn \in {"table_lbtype_performance_front", "rank_xt", "ct", "perf_table"}

\* the ranked rows of df counted in the row `label` of the table in `table`
TableRecordsOf(label) ==
    IF table.fn = "perf_table"
    THEN { i \in 1..Len(df) :
             /\ ~IsNa(df[i].Rank)
             /\ df[i].TierNorm = "Ward"
             /\ df[i].LBName = table.sel_lb
             /\ df[i].Party = label }
    ELSE RankedRecordsOf(label)

\* the labels of the category rows of the table in `table`
TableLabels == { table.rows[i].label : i \in 1..Len(table.rows) }

\* the ranks of the records counted in some row of the table
ObservedRanks ==
    { df[i].Rank.v : i \in UNION { TableRecordsOf(g) : g \in TableLabels } }

\* C17: a rank table has a column for every rank above 1 that some record
\* of its groups carries, the same columns in every row, and a group with
\* no record of a rank holds 0 in that rank's column.
C17_RankColumns ==
    AnyRankTableDone =>
        \A i \in 1..Len(table.rows) :
           LET row == table.rows[i]
           IN /\ DOMAIN row.rank \ {1} = { r \in ObservedRanks : r > 1 }
              /\ \A r \in DOMAIN row.rank :
                    row.rank[r] =
                       Cardinality({ k \in TableRecordsOf(row.label) : df[k].Rank.v = r })

\* a Party x Rank table with a column for rank 3 in which the party that
\* has no third place holds 0
C17_Witness ==
    /\ table.fn = "rank_xt"
    /\ Len(table.rows) = 2
    /\ 3 \in DOMAIN table.rows[1].rank
    /\ table.rows[1].rank[3] = 0
    /\ table.rows[2].rank[3] = 1

(***************************************************************************)
(* Missing margins in the strength summary.                                *)
(***************************************************************************)
ChartDone == table.fn = "strength_summary"

\* the rows of df in the scope of the summary in `table`
ChartScope ==
    { i \in 1..Len(df) : df[i].TierNorm = "Ward" /\ df[i].Front = table.sel_front }

\* whether the summary in `table` was built from a supplied Strength column
StrengthSupplied ==
    /\ df # <<>>
    /\ "Strength" \in DOMAIN df[1]
    /\ \E i \in ChartScope : df[i].Strength # "NaN"

\* the rows of the scope whose margin (or supplied strength) is present
WithMargin ==
    { i \in ChartScope :
        IF StrengthSupplied THEN df[i].Strength # "NaN" ELSE ~IsNa(df[i].Lead) }

\* C18: a missing margin is left out of the strength summary, from the Lead
\* column or from a supplied Strength column: every row of the summary is a
\* bucket of _STRENGTH_ORDER and the Wards of the rows add up to the number
\* of records whose margin is present.
C18_MissingMarginExcluded ==
    ChartDone =>
        /\ \A i \in 1..Len(table.rows) : table.rows[i].Strength \in Range(STRENGTH_ORDER)
        /\ SeqSum([i \in 1..Len(table.rows) |-> table.rows[i].Wards])
              = Cardinality(WithMargin)

\* C18, the part the code meets: with strength taken from the Lead column
\* the missing margins add to no bucket and make no row
C18_LeadColumn ==
    (ChartDone /\ ~StrengthSupplied) =>
        /\ \A i \in 1..Len(table.rows) : table.rows[i].Strength \in Range(STRENGTH_ORDER)
        /\ SeqSum([i \in 1..Len(table.rows) |-> table.rows[i].Wards])
              = Cardinality(WithMargin)

(***************************************************************************)
(* Join key selection.                                                     *)
(***************************************************************************)
\* the columns of `order` the loaded scope has, in that order
PresentAmong(order) == InOrderOf(order, Columns(df))

\* C21: the join key selection is [WardCode] when the scope has WardCode,
\* else the present columns among (District, LBName, WardNo) when it has
\* WardNo, else the present columns among (District, LBName, WardName); it
\* never names a column the scope lacks, and the opponent breakdown completes
\* on every scope that has Rank and Front.
C21_JoinKeyNeverFails ==
    /\ table.fn = "_ward_join_keys" =>
          /\ Range(table.keys) \subseteq Columns(df)
          /\ table.keys =
                IF "WardCode" \in Columns(df) THEN <<"WardCode">>
                ELSE IF "WardNo" \in Columns(df)
                     THEN PresentAmong(<<"District", "LBName", "WardNo">>)
                     ELSE PresentAmong(<<"District", "LBName", "WardName">>)
    /\ (table.fn = "opponent_run" /\ {"Rank", "Front"} \subseteq Columns(df)) =>
          table.raised = "none"

\* C21, what the code does: the selection is as stated on every scope that
\* has one of the identity columns, and names the absent WardName otherwise
C21_JoinKeyWhenIdentified ==
    table.fn = "_ward_join_keys" =>
        IF Columns(df) \cap {"WardCode", "WardNo", "WardName", "District", "LBName"} = {}
        THEN table.keys = <<"WardName">>
        ELSE /\ Range(table.keys) \subseteq Columns(df)
             /\ table.keys =
                   IF "WardCode" \in Columns(df) THEN <<"WardCode">>
                   ELSE IF "WardNo" \in Columns(df)
                        THEN PresentAmong(<<"District", "LBName", "WardNo">>)
                        ELSE PresentAmong(<<"District", "LBName", "WardName">>)

\* C21, what the code does for the breakdown: on a scope with Rank and Front
\* it raises KeyError when the scope has neither Tier nor TierNorm, or has a
\* ward-tier row and none of the identity columns, and completes otherwise
C21_RunCompletesWhenIdentified ==
    (table.fn = "opponent_run" /\ {"Rank", "Front"} \subseteq Columns(df)) =>
        LET cols == Columns(df)
            noTier == {"Tier", "TierNorm"} \cap cols = {}
            noIdentity ==
                cols \cap {"WardCode", "WardNo", "WardName", "District", "LBName"} = {}
            someWard == \E i \in 1..Len(df) : TierNormOf(df[i]) = "Ward"
        IN table.raised = "none" <=> ~(noTier \/ (someWard /\ noIdentity))

(***************************************************************************)
(* Views over a shared scope.                                              *)
(***************************************************************************)
\* what an operation returns when it runs alone on a scope
RunAlone(op, scope_df, sel_front) ==
    ViewOutput(op, WriteColumns(op, WorkingFrame(op, scope_df, sel_front)), sel_front)

MaxLeaderDone ==
    leader.fn \in {"_lb_leader", "_leader_row@District", "_leader_row@Assembly"}
    \/ (leader.fn = "_winner_from_dict" /\ ~leader.prefer_low)

\* C23: on every assignment of non-negative values to the four fronts,
\* _leader_row of the District page, _lb_leader and _leader_row of the
\* Assembly page and _winner_from_dict(prefer_low=False) return the same
\* result: whichever was called, the other three give what it gave.
C23_LeadersAgree ==
    (MaxLeaderDone /\ DictKeys(d) = Range(FRONT_ORDER)) =>
        /\ LeaderRowDistrict(d) = leader.res
        /\ LbLeader(d) = leader.res
        /\ LeaderRowAssembly(d) = leader.res
        /\ WinnerFromDict(d, FALSE) = leader.res

\* _lb_leader has resolved four fronts of which two share the top count
C23_Witness ==
    /\ leader.fn = "_lb_leader"
    /\ d = <<<<"NDA", 1>>, <<"LDF", 3>>, <<"UDF", 3>>, <<"OTH", 0>>>>
    /\ leader.res = "TIE"

(***************************************************************************)
(* Duality of the opponent breakdown.                                      *)
(***************************************************************************)
\* the cell of the column `col` in the row of the category g, 0 without a row
OppCell(rows, g, col) ==
    LET Hit(row) == row.Front = g
        hits == SelectSeq(rows, Hit)
    IN IF hits = <<>> THEN 0 ELSE hits[1][col]

\* C24: for every ward-tier record set, duplicates of a rank within a ward
\* included, and every pair of categories F and G, the runner-up count of G
\* in the breakdown of F equals the winners count of F in the breakdown of
\* G; here F is the front the table was computed for.
C24_OpponentDuality ==
    table.fn = "table_opponent_front" =>
        \A g \in {"UDF", "LDF"} :
           LET other == IF g = table.sel_front THEN table.rows
                        ELSE TableOpponentFront(df, g)
           IN /\ OppCell(table.rows, g, "RunnerUp")
                    = OppCell(other, table.sel_front, "Winners")
              /\ OppCell(table.rows, g, "Winners")
                    = OppCell(other, table.sel_front, "RunnerUp")

\* the breakdown of UDF over a ward with two UDF winners and one LDF
\* runner-up: LDF was runner-up twice
C24_Witness ==
    /\ table.fn = "table_opponent_front"
    /\ table.sel_front = "UDF"
    /\ Len(df) = 3
    /\ \A i \in 1..3 : df[i].WardCode = "W1" /\ df[i].TierNorm = "Ward"
    /\ Cardinality({ i \in 1..3 : df[i].Front = "UDF" /\ RankIs(df[i], 1) }) = 2
    /\ \E i \in 1..3 : df[i].Front = "LDF" /\ RankIs(df[i], 2)
    /\ OppCell(table.rows, "LDF", "RunnerUp") = 2

(***************************************************************************)
(* Summary rows of the Assembly page.                                      *)
(***************************************************************************)
\* the votes of a front over the ward-tier rows of the assembly
VotesOfFront(fr) ==
    SumOver([i \in 1..Len(df) |-> df[i].Votes],
            { i \in 1..Len(df) : df[i].Tier = "Ward" /\ df[i].Front = fr })

SomeFrontPositive == \E k \in 1..Len(FRONT_ORDER) : VotesOfFront(FRONT_ORDER[k]) > 0
EveryFrontZero == \A k \in 1..Len(FRONT_ORDER) : VotesOfFront(FRONT_ORDER[k]) = 0

\* C25: in the summary rows the rank-based leader equals the total-based and
\* the percentage-based leader whenever some front has a positive total;
\* when every front total is 0 the total-based and percentage-based leaders
\* are NONE and the rank-based leader is TIE.
C25_SummaryLeadersAgree ==
    table.fn = "votes_by_front" =>
        /\ SomeFrontPositive =>
              /\ table.leader_rank = table.leader_total
              /\ table.leader_rank = table.leader_pct
        /\ EveryFrontZero =>
              /\ table.leader_total = "NONE"
              /\ table.leader_pct = "NONE"
              /\ table.leader_rank = "TIE"

\* C25, what the code does: the three leaders agree when some front total is
\* positive and none is negative
C25_AgreeOnNonNegativeTotals ==
    table.fn = "votes_by_front" =>
        /\ (SomeFrontPositive
            /\ \A k \in 1..Len(FRONT_ORDER) : VotesOfFront(FRONT_ORDER[k]) >= 0) =>
              /\ table.leader_rank = table.leader_total
              /\ table.leader_rank = table.leader_pct
        /\ EveryFrontZero =>
              /\ table.leader_total = "NONE"
              /\ table.leader_pct = "NONE"
              /\ table.leader_rank = "TIE"

(***************************************************************************)
(* Order and sign of the strength buckets.                                 *)
(***************************************************************************)
\* the position of a bucket in _STRENGTH_ORDER
StrengthIndex(label) ==
    CHOOSE i \in 1..Len(STRENGTH_ORDER) : STRENGTH_ORDER[i] = label

\* C26: over integer margins the classifier is monotone (the bucket of a
\* margin does not come after the bucket of any larger margin in
\* _STRENGTH_ORDER) and sign-consistent (the label starts with "-" exactly
\* when the margin is negative), so the chart's Status is "Lost" exactly
\* when the margin is below 0 and "Won" otherwise, 0 included.
C26_StrengthMonotone ==
    (strength # "unset" /\ ~IsNa(lead)) =>
        /\ strength \in Range(STRENGTH_ORDER)
        /\ \A b \in lead.v..MaxLead :
              StrengthIndex(strength) <= StrengthIndex(LeadToStrength(Num(b)))
        /\ StartsWithMinus(strength) <=> lead.v < 0
        /\ StrengthStatus(strength) = IF lead.v < 0 THEN "Lost" ELSE "Won"

\* a margin of 0 has been classified, into the bucket "0"
C26_Witness ==
    /\ lead = Num(0)
    /\ strength = "0"

(***************************************************************************)
(* Local bodies led by front: the bodies and their seats, read off the     *)
(* rows of the district.                                                   *)
(***************************************************************************)
\* row i of the district is a ward-tier winner of one of the three types
IsLbWinner(i) ==
    /\ df[i].Tier = "Ward"
    /\ RankIs(df[i], 1)
    /\ df[i].LBType \in {"Grama", "Municipality", "Corporation"}

\* the local bodies with at least one such record
LbWithWinner ==
    { <<df[i].LBCode, df[i].LBName, df[i].LBType>> :
        i \in { j \in 1..Len(df) : IsLbWinner(j) } }

\* the seats of a front in a local body
LbSeats(b, fr) ==
    Cardinality({ i \in 1..Len(df) :
                    /\ IsLbWinner(i)
                    /\ <<df[i].LBCode, df[i].LBName, df[i].LBType>> = b
                    /\ df[i].Front = fr })

\* fr alone has the largest seat count of the fronts of FRONT_ORDER in b
SingleLeader(b, fr) ==
    /\ fr \in Range(FRONT_ORDER)
    /\ LbSeats(b, fr) > 0
    /\ \A g \in Range(FRONT_ORDER) \ {fr} : LbSeats(b, g) < LbSeats(b, fr)

\* the sum of all the cells of a front x type table
CellSum(xt) ==
    SeqSum([i \in 1..Len(xt.index) |->
              SeqSum([j \in 1..Len(xt.columns) |-> xt.cell[xt.index[i]][xt.columns[j]]])])

\* C27: in "Local Bodies Led by Front" every local body with a ward-tier
\* rank-1 record is counted at most once: once, under its leader front and
\* its LBType, when a single front of FRONT_ORDER has the strict maximum seat
\* count, and not at all when its leader is TIE or NONE; the sum of all the
\* cells is the number of local bodies with a single leading front.
C27_LbCountedOnce ==
    (LeadDone /\ table.raised = "none") =>
        /\ table.lead_table.index = FRONT_ORDER
        /\ table.lead_table.columns = <<"Grama", "Municipality", "Corporation">>
        /\ \A fr \in Range(FRONT_ORDER), t \in {"Grama", "Municipality", "Corporation"} :
              table.lead_table.cell[fr][t]
                 = Cardinality({ b \in LbWithWinner : b[3] = t /\ SingleLeader(b, fr) })
        /\ CellSum(table.lead_table)
              = Cardinality({ b \in LbWithWinner :
                                \E fr \in Range(FRONT_ORDER) : SingleLeader(b, fr) })
        /\ CellSum(table.lead_table) <= Cardinality(LbWithWinner)

\* a district with a body led by UDF alone and a body where UDF and LDF tie:
\* the table counts one body
C27_Witness ==
    /\ LeadDone /\ table.raised = "none"
    /\ Cardinality(LbWithWinner) = 2
    /\ \E b \in LbWithWinner : LbSeats(b, "UDF") = 1 /\ LbSeats(b, "LDF") = 1
    /\ \E b \in LbWithWinner : SingleLeader(b, "UDF")
    /\ CellSum(table.lead_table) = 1

(***************************************************************************)
(* Winners outside the axes of the seat crosstab.                          *)
(***************************************************************************)
\* the rank-1 records in the scope of the table in `table`
RankOneInScope ==
    { i \in 1..Len(df) :
        RankIs(df[i], 1) /\ table.sel_district \in {"All Kerala", df[i].District} }

\* C28: winners whose front is outside FRONT_ORDER or whose local-body type
\* is outside LBTYPE_ORDER are dropped, not folded into another bucket: the
\* grand total of the Overall table is the number of rank-1 records in scope
\* with a front of FRONT_ORDER and a type of LBTYPE_ORDER, and is never more
\* than the number of rank-1 records in scope.
C28_GrandTotal ==
    table.fn = "front_table" =>
        /\ table.xt.cell["Total"]["Total"]
              = Cardinality({ i \in RankOneInScope :
                                /\ df[i].Front \in Range(FRONT_ORDER)
                                /\ df[i].LBType \in Range(LBTYPE_ORDER) })
        /\ table.xt.cell["Total"]["Total"] <= Cardinality(RankOneInScope)
        /\ Range(table.xt.index) = Range(FRONT_ORDER) \cup {"Total"}
        /\ Range(table.xt.columns) = Range(LBTYPE_ORDER) \cup {"Total"}

\* three winners in scope, one of a front outside FRONT_ORDER and one of a
\* type outside LBTYPE_ORDER: the grand total is 1
C28_Witness ==
    /\ table.fn = "front_table"
    /\ Cardinality(RankOneInScope) = 3
    /\ \E i \in RankOneInScope : df[i].Front = "IND" /\ df[i].LBType = "Grama"
    /\ \E i \in RankOneInScope : df[i].Front = "UDF" /\ df[i].LBType = "Township"
    /\ table.xt.cell["Total"]["Total"] = 1

(***************************************************************************)
(* Winner and lead of a ward, read off the rows of the ward.               *)
(***************************************************************************)
\* the candidates of the loaded ward and the summed votes of each
CandidatesOfWard == { df[i].Candidate : i \in 1..Len(df) }

CandidateVotes(c) ==
    SumOver([i \in 1..Len(df) |-> df[i].Votes],
            { i \in 1..Len(df) : df[i].Candidate = c })

\* the highest summed votes among the candidates of S
TopVotes(S) == SetMax({ CandidateVotes(c) : c \in S })

WardHeadlineDone == table.fn = "ward_headline"

\* C29: the headline winner is a candidate with the maximum summed votes in
\* the ward; the lead is the winner's votes minus the second-highest
\* candidate's votes, is never negative, is the winner's own votes when the
\* ward has a single candidate, and is 0 when the top two are level.
C29_WardLead ==
    WardHeadlineDone =>
        LET w == table.winner.Candidate
            others == CandidatesOfWard \ {w}
        IN /\ w \in CandidatesOfWard
           /\ table.winner.Votes = CandidateVotes(w)
           /\ CandidateVotes(w) = TopVotes(CandidatesOfWard)
           /\ others # {} => table.lead = CandidateVotes(w) - TopVotes(others)
           /\ others = {} => table.lead = CandidateVotes(w)
           /\ (others # {} /\ TopVotes(others) = CandidateVotes(w)) => table.lead = 0
           /\ table.lead >= 0

\* C29, what the code does: winner and lead are as stated, and the lead is
\* below 0 exactly when the ward's single candidate has negative votes
C29_LeadNegativeOnlyAlone ==
    WardHeadlineDone =>
        LET w == table.winner.Candidate
            others == CandidatesOfWard \ {w}
        IN /\ w \in CandidatesOfWard
           /\ table.winner.Votes = CandidateVotes(w)
           /\ CandidateVotes(w) = TopVotes(CandidatesOfWard)
           /\ others # {} => table.lead = CandidateVotes(w) - TopVotes(others)
           /\ others = {} => table.lead = CandidateVotes(w)
           /\ (others # {} /\ TopVotes(others) = CandidateVotes(w)) => table.lead = 0
           /\ table.lead < 0 <=> (others = {} /\ CandidateVotes(w) < 0)

(***************************************************************************)
(* Normalising what is already normalised.                                 *)
(***************************************************************************)
\* a normalised frame as the normaliser reads it: the int64 Votes cells are
\* numbers
AsCells(frame) ==
    [i \in 1..Len(frame) |->
        [f \in DOMAIN frame[i] |-> IF f = "Votes" THEN Num(frame[i].Votes)
                                   ELSE frame[i][f]]]

====
